---- MODULE Spec2Model ----
(***************************************************************************)
(* A model of the object I/O engine of acid-store: the Object view         *)
(* (src/src/repo/common/object.rs) over immutable content-addressed        *)
(* chunks, with its read / write / seek / truncate / flush / serialize     *)
(* handlers, each translated statement by statement, and of the repository *)
(* controller around it (header, blob store, commit, rollback, clean) as   *)
(* the specification describes it.                                         *)
(***************************************************************************)
EXTENDS Integers, Sequences, FiniteSets, TLC

VARIABLES
    handle,        \* ObjectHandle: [size, chunks]
    object_state,  \* ObjectState: position, chunker, new_chunks, start_location, ...
    store,         \* the chunk store: chunk hash -> stored payload
    alive,         \* FALSE once a handler has panicked (the process is gone)
    pend,          \* history: the write that is pending since the last flush
    last,          \* history: the last handler that ran, its arguments and result
    header,        \* the repository's header in memory: objects, chunkmap, refcounts
    backend,       \* the blob store: pointer blob, header blobs, chunk blobs
    session,       \* the open repository: closed / idle / how far its commit got
    history,       \* history: what was committed, and how the last session ended
    fuse           \* the FUSE adapter: file handles, entries, inode table, listings

vars == <<handle, object_state, store, alive, pend, last, header, backend, session, history,
          fuse>>

----------------------------------------------------------------------------
(* Bounds of the model.                                                    *)

\* No object grows beyond MaxLen bytes.
MaxLen == 3
\* The longest buffer handed to one write call.
MaxBuf == 2
\* u64 and i64 are scaled down to Width bits.
Width == 8

\* The byte values of the model.
Byte == { 0, 1 }
NumBytes == Cardinality(Byte)

RECURSIVE Pow2(_)
Pow2(n) == IF n = 0 THEN 1 ELSE 2 * Pow2(n - 1)

U64Max == Pow2(Width) - 1
I64Max == Pow2(Width - 1) - 1
I64Min == 0 - Pow2(Width - 1)
U64 == 0 .. U64Max
I64 == I64Min .. I64Max

\* Two's complement wrap of an integer into the i64 range.
WrapI64(x) == ((x - I64Min) % Pow2(Width)) + I64Min

Min(a, b) == IF a <= b THEN a ELSE b
Max(a, b) == IF a >= b THEN a ELSE b

\* Option<T> is a sequence of length 0 (None) or 1 (Some).
None == << >>
Some(x) == << x >>
IsSome(o) == Len(o) = 1
Unwrap(o) == o[1]

RECURSIVE SeqsUpTo(_)
SeqsUpTo(n) ==
    IF n = 0 THEN { << >> }
    ELSE LET shorter == SeqsUpTo(n - 1)
         IN shorter \cup { Append(s, b) : s \in { t \in shorter : Len(t) = n - 1 }, b \in Byte }

\* Rust slices: data[from..to], data[..to], data[from..] with 0-based offsets.
Slice(data, from, to) == SubSeq(data, from + 1, to)
Take(data, to) == SubSeq(data, 1, to)
Drop(data, from) == SubSeq(data, from + 1, Len(data))

----------------------------------------------------------------------------
(* Chunks and the chunk store.                                             *)

\* A digest that tells payloads apart by their length only.
chunk_hash_by_length(data) == Len(data) + 1

\* The digest of a payload, as a number: injective on byte sequences.
RECURSIVE chunk_hash(_)
chunk_hash(data) ==
    IF Len(data) = 0 THEN 1
    ELSE NumBytes * chunk_hash(Take(data, Len(data) - 1)) + data[Len(data)]

\* write_chunk: the payload is stored under its hash unless the hash is known.
write_chunk(st, data) ==
    LET h == chunk_hash(data)
    IN [ store |-> IF h \in DOMAIN st THEN st
                   ELSE [ k \in DOMAIN st \cup {h} |-> IF k = h THEN data ELSE st[k] ],
         chunk |-> [ size |-> Len(data), hash |-> h ] ]

\* read_chunk: the payload stored under the chunk's hash.
read_chunk(st, chunk) == st[chunk.hash]

----------------------------------------------------------------------------
(* The incremental content-defined chunker.                                *)

\* Chunker configuration: the smallest and the largest chunk it cuts.
min_size == 1
max_size == 2

\* The rolling hash matches the boundary mask after this byte.
is_boundary(byte) == byte = 1

\* Chunker::write_all: feed bytes one by one; a chunk is cut at a boundary
\* byte once min_size is reached, and always at max_size.
\* c = [buffer |-> unfinished bytes, chunks |-> finished chunks not yet drained]
RECURSIVE chunker_write_all(_, _)
chunker_write_all(c, data) ==
    IF Len(data) = 0 THEN c
    ELSE LET buffer == Append(c.buffer, Head(data))
             cut == \/ Len(buffer) >= max_size
                    \/ Len(buffer) >= min_size /\ is_boundary(Head(data))
         IN chunker_write_all(
                IF cut THEN [ buffer |-> << >>, chunks |-> Append(c.chunks, buffer) ]
                       ELSE [ buffer |-> buffer, chunks |-> c.chunks ],
                Tail(data))

\* Chunker::flush: the buffered bytes, if any, become a final short chunk.
chunker_flush(c) ==
    IF Len(c.buffer) = 0 THEN c
    ELSE [ buffer |-> << >>, chunks |-> Append(c.chunks, c.buffer) ]

----------------------------------------------------------------------------
(* ObjectHandle and ObjectState.                                           *)

RECURSIVE SumSizes(_)
SumSizes(chunks) ==
    IF Len(chunks) = 0 THEN 0 ELSE Head(chunks).size + SumSizes(Tail(chunks))

\* ObjectState::new
NewObjectState ==
    [ position |-> 0,
      chunker |-> << >>,
      new_chunks |-> << >>,
      start_location |-> None,
      needs_flushed |-> FALSE,
      buffered_chunk |-> None,
      read_buffer |-> << >> ]

\* The handle of a freshly inserted object.
EmptyHandle == [ size |-> 0, chunks |-> << >> ]

\* ChunkLocation::relative_position
relative_position(location) == location.position - location.start

\* ObjectReader::current_chunk: the chunk holding `position`, or None.
RECURSIVE current_chunk_scan(_, _, _, _)
current_chunk_scan(chunks, position, index, chunk_start) ==
    IF index >= Len(chunks) THEN None
    ELSE LET chunk == chunks[index + 1]
             chunk_end == chunk_start + chunk.size
         IN IF position >= chunk_start /\ position < chunk_end
            THEN Some([ chunk |-> chunk, start |-> chunk_start, end |-> chunk_end,
                        position |-> position, index |-> index ])
            ELSE current_chunk_scan(chunks, position, index + 1, chunk_end)

current_chunk(h, os) == current_chunk_scan(h.chunks, os.position, 0, 0)

\* The outcome of a handler: the state it leaves, its status and its return value.
Outcome(h, os, st, status, ret) ==
    [ handle |-> h, os |-> os, store |-> st, status |-> status, ret |-> ret ]

----------------------------------------------------------------------------
(* ObjectWriter: write, flush, truncate.                                   *)

\* A write_chunks that records the chunks without storing them.
RECURSIVE write_chunks_unstored(_, _, _)
write_chunks_unstored(datas, new_chunks, st) ==
    IF Len(datas) = 0 THEN [ new_chunks |-> new_chunks, store |-> st ]
    ELSE write_chunks_unstored(Tail(datas),
                               Append(new_chunks, [ size |-> Len(Head(datas)),
                                                    hash |-> chunk_hash(Head(datas)) ]),
                               st)

\* A write_chunks that records the newest chunk first.
RECURSIVE write_chunks_newest_first(_, _, _)
write_chunks_newest_first(datas, new_chunks, st) ==
    IF Len(datas) = 0 THEN [ new_chunks |-> new_chunks, store |-> st ]
    ELSE LET w == write_chunk(st, Head(datas))
         IN write_chunks_newest_first(Tail(datas), << w.chunk >> \o new_chunks, w.store)

\* ObjectWriter::write_chunks: store every finished chunk, remember its reference.
RECURSIVE write_chunks(_, _, _)
write_chunks(datas, new_chunks, st) ==
    IF Len(datas) = 0 THEN [ new_chunks |-> new_chunks, store |-> st ]
    ELSE LET w == write_chunk(st, Head(datas))
         IN write_chunks(Tail(datas), Append(new_chunks, w.chunk), w.store)

\* A write that takes every call for the first one after a flush.
ObjectWriter_write_restarting(h, os, st, buf) ==
    LET location == current_chunk(h, os)
        c0 == [ buffer |-> os.chunker, chunks |-> << >> ]
        c1 == IF IsSome(location)
              THEN chunker_write_all(c0,
                       Take(read_chunk(st, Unwrap(location).chunk),
                            relative_position(Unwrap(location))))
              ELSE c0
        c2 == chunker_write_all(c1, buf)
        w == write_chunks(c2.chunks, os.new_chunks, st)
    IN Outcome(h,
               [ os EXCEPT !.start_location = location,
                           !.chunker = c2.buffer,
                           !.new_chunks = w.new_chunks,
                           !.position = os.position + Len(buf),
                           !.needs_flushed = TRUE ],
               w.store, "ok", Len(buf))

\* A write that records the new size in the handle at once.
ObjectWriter_write_through(h, os, st, buf) ==
    LET first == ~os.needs_flushed
        location == current_chunk(h, os)
        start_location == IF first THEN location ELSE os.start_location
        c0 == [ buffer |-> os.chunker, chunks |-> << >> ]
        c1 == IF first /\ IsSome(location)
              THEN chunker_write_all(c0,
                       Take(read_chunk(st, Unwrap(location).chunk),
                            relative_position(Unwrap(location))))
              ELSE c0
        c2 == chunker_write_all(c1, buf)
        w == write_chunks(c2.chunks, os.new_chunks, st)
    IN Outcome([ h EXCEPT !.size = Max(h.size, os.position + Len(buf)) ],
               [ os EXCEPT !.start_location = start_location,
                           !.chunker = c2.buffer,
                           !.new_chunks = w.new_chunks,
                           !.position = os.position + Len(buf),
                           !.needs_flushed = TRUE ],
               w.store, "ok", Len(buf))

\* impl Write for ObjectWriter: write
ObjectWriter_write(h, os, st, buf) ==
    LET first == ~os.needs_flushed
        location == current_chunk(h, os)
        start_location == IF first THEN location ELSE os.start_location
        c0 == [ buffer |-> os.chunker, chunks |-> << >> ]
        c1 == IF first /\ IsSome(location)
              THEN chunker_write_all(c0,
                       Take(read_chunk(st, Unwrap(location).chunk),
                            relative_position(Unwrap(location))))
              ELSE c0
        c2 == chunker_write_all(c1, buf)
        w == write_chunks(c2.chunks, os.new_chunks, st)
    IN Outcome(h,
               [ os EXCEPT !.start_location = start_location,
                           !.chunker = c2.buffer,
                           !.new_chunks = w.new_chunks,
                           !.position = os.position + Len(buf),
                           !.needs_flushed = TRUE ],
               w.store, "ok", Len(buf))

\* flush: the index of the first chunk which is being overwritten.
flush_start_index(os) ==
    IF IsSome(os.start_location) THEN Unwrap(os.start_location).index ELSE 0

\* An end index that leaves the chunk under the seek position in place.
flush_end_index_exclusive(h, current) ==
    IF IsSome(current) THEN Unwrap(current).index ELSE Len(h.chunks)

\* flush: one past the index of the last chunk which is being overwritten.
flush_end_index(h, current) ==
    IF IsSome(current) THEN Unwrap(current).index + 1 ELSE Len(h.chunks)

\* A flush that never returns early.
flush_is_noop_never(os) == FALSE

\* flush: nothing has been written since the data was last flushed.
flush_is_noop(os) == ~os.needs_flushed

\* impl Write for ObjectWriter: flush
ObjectWriter_flush(h, os, st) ==
    IF flush_is_noop(os) THEN Outcome(h, os, st, "ok", 0)
    ELSE
    LET current == current_chunk(h, os)
        c0 == [ buffer |-> os.chunker, chunks |-> << >> ]
        c1 == IF IsSome(current)
              THEN chunker_write_all(c0,
                       Drop(read_chunk(st, Unwrap(current).chunk),
                            relative_position(Unwrap(current))))
              ELSE c0
        c2 == chunker_flush(c1)
        w == write_chunks(c2.chunks, os.new_chunks, st)
        start_index == flush_start_index(os)
        end_index == flush_end_index(h, current)
        chunks == Take(h.chunks, start_index) \o w.new_chunks \o Drop(h.chunks, end_index)
        drained == [ os EXCEPT !.chunker = c2.buffer, !.new_chunks = << >> ]
    IN IF start_index > end_index
       THEN \* Vec::splice panics on a range that starts after its end.
            Outcome(h, drained, w.store, "panic", 0)
       ELSE Outcome([ size |-> SumSizes(chunks), chunks |-> chunks ],
                    [ drained EXCEPT !.start_location = None, !.needs_flushed = FALSE ],
                    w.store, "ok", 0)

\* A truncate that leaves the recorded size as it was.
truncate_size_stale(length, current_size) == current_size

\* truncate: the size of the object once it is cut to `length`.
truncate_size(length, current_size) == Min(length, current_size)

\* ObjectWriter::truncate
ObjectWriter_truncate(h0, os0, st0, length) ==
    LET f == ObjectWriter_flush(h0, os0, st0)
        h == f.handle
        os == f.os
        st == f.store
        original_position == os.position
        moved == [ os EXCEPT !.position = length ]
        end_location == current_chunk(h, moved)
        loc == Unwrap(end_location)
        new_last_chunk == write_chunk(st, Take(read_chunk(st, loc.chunk), relative_position(loc)))
    IN IF f.status # "ok" THEN f
       ELSE IF length >= h.size THEN Outcome(h, os, st, "ok", 0)
       ELSE IF ~IsSome(end_location) THEN Outcome(h, moved, st, "ok", 0)
       ELSE Outcome([ size |-> truncate_size(length, h.size),
                      chunks |-> Append(Take(h.chunks, loc.index), new_last_chunk.chunk) ],
                    [ os EXCEPT !.position = Min(original_position, length) ],
                    new_last_chunk.store, "ok", 0)

----------------------------------------------------------------------------
(* ObjectReader: seek, read.                                               *)

\* An End seek that counts forward from the end of the object.
end_position_forward(object_size, offset) == WrapI64(object_size) + offset

\* seek, SeekFrom::End: object_size as i64 - offset, before it is cast and clamped.
end_position(object_size, offset) == WrapI64(object_size) - offset

\* impl Seek for ObjectReader. pos = [kind, offset]; overflow_checks says whether
\* the build panics on integer overflow (debug) or wraps (release).
ObjectReader_seek(h, os, st, pos, overflow_checks) ==
    LET object_size == h.size
        invalid == Outcome(h, os, st, "InvalidInput", 0)
        panic == Outcome(h, os, st, "panic", 0)
        done(new_position) ==
            Outcome(h, [ os EXCEPT !.position = new_position ], st, "ok", new_position)
        \* (x as i64) as u64 of a wrapped difference or sum
        as_u64(x) == x % Pow2(Width)
    IN CASE pos.kind = "Start" -> done(Min(object_size, pos.offset))
         [] pos.kind = "End" ->
              IF pos.offset > WrapI64(object_size) THEN invalid
              ELSE LET diff == end_position(object_size, pos.offset)
                   IN IF diff > I64Max /\ overflow_checks THEN panic
                      ELSE done(Min(object_size, as_u64(WrapI64(diff))))
         [] pos.kind = "Current" ->
              LET sum == WrapI64(os.position) + pos.offset
              IN IF sum > I64Max /\ overflow_checks THEN panic
                 ELSE IF WrapI64(sum) < 0 THEN invalid
                 ELSE done(Min(object_size, as_u64(WrapI64(sum))))

\* ObjectReader::read_chunk followed by impl Read for ObjectReader: read.
\* ret is the sequence of bytes copied into the caller's buffer.
ObjectReader_read(h, os, st, size) ==
    LET current == current_chunk(h, os)
        location == Unwrap(current)
        cached == Some(location.chunk) = os.buffered_chunk
        read_buffer == IF cached THEN os.read_buffer ELSE read_chunk(st, location.chunk)
        start == relative_position(location)
        end == Min(start + size, location.chunk.size)
        next_chunk == Slice(read_buffer, start, end)
    IN IF ~IsSome(current) THEN Outcome(h, os, st, "ok", << >>)
       ELSE Outcome(h,
                    [ os EXCEPT !.buffered_chunk = Some(location.chunk),
                                !.read_buffer = read_buffer,
                                !.position = os.position + Len(next_chunk) ],
                    st, "ok", next_chunk)

----------------------------------------------------------------------------
(* Object: the read-write view. Each handler is the whole method.          *)

\* rmp_serde::to_vec of a small unsigned integer: MessagePack's positive
\* fixint, one byte holding the value.
Value == Byte
to_vec(value) == << value >>

\* impl Write for Object: write
Object_write(h, os, st, buf) == ObjectWriter_write(h, os, st, buf)

\* impl Write for Object: flush
Object_flush(h, os, st) == ObjectWriter_flush(h, os, st)

\* impl Seek for Object, after its flush has returned f: the seek itself.
Object_seek_flushed(f, pos, overflow_checks) ==
    IF f.status # "ok" THEN f
    ELSE ObjectReader_seek(f.handle, f.os, f.store, pos, overflow_checks)

\* impl Seek for Object: flush, then seek.
Object_seek(h, os, st, pos, overflow_checks) ==
    Object_seek_flushed(ObjectWriter_flush(h, os, st), pos, overflow_checks)

\* impl Seek for Object in repo/object/object.rs: the unflushed data is cleared,
\* then the same arithmetic on the size recorded in the handle.
Object_seek_discarding(h, os, st, pos, overflow_checks) ==
    ObjectReader_seek(h, [ os EXCEPT !.new_chunks = << >>, !.chunker = << >> ],
                      st, pos, overflow_checks)

\* impl Read for Object: flush, then read.
Object_read(h, os, st, size) ==
    LET f == ObjectWriter_flush(h, os, st)
    IN IF f.status # "ok" THEN [ f EXCEPT !.ret = << >> ]
       ELSE ObjectReader_read(f.handle, f.os, f.store, size)

\* Object::truncate
Object_truncate(h, os, st, length) == ObjectWriter_truncate(h, os, st, length)

\* Object::serialize -> ObjectWriter::serialize: seek to 0 without flushing,
\* write_all, flush, truncate.
Object_serialize(h, os, st, value) ==
    LET serialized == to_vec(value)
        s == ObjectReader_seek(h, os, st, [ kind |-> "Start", offset |-> 0 ], FALSE)
        w == ObjectWriter_write(s.handle, s.os, s.store, serialized)
        f == ObjectWriter_flush(w.handle, w.os, w.store)
    IN IF f.status # "ok" THEN f
       ELSE ObjectWriter_truncate(f.handle, f.os, f.store, Len(serialized))

\* rmp_serde::from_read of a positive fixint: one byte is read and is the value;
\* a source that has ended is an error.
from_read(r) ==
    IF r.status # "ok" THEN [ r EXCEPT !.ret = 0 ]
    ELSE IF Len(r.ret) = 0 THEN [ r EXCEPT !.status = "Deserialize", !.ret = 0 ]
    ELSE [ r EXCEPT !.ret = r.ret[1] ]

\* Object::deserialize -> ObjectReader::deserialize: seek to 0 without
\* flushing, from_read.
Object_deserialize(h, os, st) ==
    LET s == ObjectReader_seek(h, os, st, [ kind |-> "Start", offset |-> 0 ], FALSE)
    IN from_read(ObjectReader_read(s.handle, s.os, s.store, Len(to_vec(0))))

\* impl Drop for Object (flush().ok()) followed by Object::new on the same handle.
Object_reopen(h, os, st) ==
    LET f == ObjectWriter_flush(h, os, st)
    IN IF f.status # "ok" THEN f
       ELSE Outcome(f.handle, NewObjectState, f.store, "ok", 0)

----------------------------------------------------------------------------
(* The handlers when the chunk store fails.                                *)
(* env = [ reads, writes ]: reads is None or Some([ hash, kind ]), the     *)
(* chunk whose read_chunk fails with InvalidData or with a Store error, or *)
(* yields a payload with a flipped byte ("garbled"); writes is None or     *)
(* Some(k), write_chunk failing with a Store error after k calls of one    *)
(* write_chunks.                                                           *)

NoFaults == [ reads |-> None, writes |-> None ]

ReadErrors == { "InvalidData", "Store" }
ReadFaults == ReadErrors \cup { "garbled" }

\* A payload with its first byte flipped.
Garbled(data) ==
    IF Len(data) = 0 THEN data ELSE << 1 - Head(data) >> \o Tail(data)

\* ReadChunk::read_chunk as a handler calls it: Ok(payload) or Err(status).
chunk_reader_read_chunk(env, st, chunk) ==
    LET hit == IsSome(env.reads) /\ Unwrap(env.reads).hash = chunk.hash
        kind == Unwrap(env.reads).kind
    IN IF ~hit THEN [ status |-> "ok", data |-> read_chunk(st, chunk) ]
       ELSE IF kind = "garbled"
            THEN [ status |-> "ok", data |-> Garbled(read_chunk(st, chunk)) ]
            ELSE [ status |-> kind, data |-> << >> ]

\* A verify that compares the length of a payload only.
verify_data_by_length(chunk, data) == Len(data) = chunk.size

\* verify: the payload read has the recorded length and hash.
verify_data(chunk, data) == Len(data) = chunk.size /\ chunk_hash(data) = chunk.hash

\* ObjectReader::verify, the loop over the chunks: [ status, ret ].
RECURSIVE verify_chunks(_, _, _)
verify_chunks(env, chunks, st) ==
    IF Len(chunks) = 0 THEN [ status |-> "ok", ret |-> TRUE ]
    ELSE LET r == chunk_reader_read_chunk(env, st, Head(chunks))
         IN IF r.status = "ok"
            THEN IF ~verify_data(Head(chunks), r.data)
                 THEN [ status |-> "ok", ret |-> FALSE ]
                 ELSE verify_chunks(env, Tail(chunks), st)
            ELSE IF r.status = "InvalidData" THEN [ status |-> "ok", ret |-> FALSE ]
            ELSE [ status |-> r.status, ret |-> FALSE ]

\* Object::verify -> ObjectReader::verify; ret is 1 for Ok(true), 0 for Ok(false).
Object_verify(env, h, os, st) ==
    LET v == verify_chunks(env, h.chunks, st)
    IN Outcome(h, os, st, v.status, IF v.ret THEN 1 ELSE 0)

\* ObjectReader::read_chunk and read: the key of the buffer is set before the
\* chunk is fetched, the buffer itself only when the fetch succeeds.
ObjectReader_read_in(env, h, os, st, size) ==
    LET current == current_chunk(h, os)
        location == Unwrap(current)
        cached == Some(location.chunk) = os.buffered_chunk
        r == chunk_reader_read_chunk(env, st, location.chunk)
        keyed == [ os EXCEPT !.buffered_chunk = Some(location.chunk) ]
        read_buffer == IF cached THEN os.read_buffer ELSE r.data
        start == relative_position(location)
        end == Min(start + size, location.chunk.size)
        next_chunk == Slice(read_buffer, start, end)
    IN IF ~IsSome(current) THEN Outcome(h, os, st, "ok", << >>)
       ELSE IF ~cached /\ r.status # "ok" THEN Outcome(h, keyed, st, r.status, << >>)
       ELSE IF end > Len(read_buffer)
            THEN \* read_buffer[start..end]: the range ends past the buffer.
                 Outcome(h, [ keyed EXCEPT !.read_buffer = read_buffer ], st, "panic", << >>)
       ELSE Outcome(h,
                    [ keyed EXCEPT !.read_buffer = read_buffer,
                                   !.position = os.position + Len(next_chunk) ],
                    st, "ok", next_chunk)

\* ObjectWriter::write_chunks: Chunker::chunks drains the finished chunks, and
\* the loop stops at the first write_chunk that fails.
write_chunks_in(env, datas, new_chunks, st) ==
    LET stored == IF IsSome(env.writes) THEN Min(Unwrap(env.writes), Len(datas))
                  ELSE Len(datas)
        w == write_chunks(Take(datas, stored), new_chunks, st)
    IN [ new_chunks |-> w.new_chunks, store |-> w.store,
         status |-> IF stored < Len(datas) THEN "Store" ELSE "ok" ]

\* impl Write for ObjectWriter: write, each `?` returning early
ObjectWriter_write_in(env, h, os, st, buf) ==
    LET first == ~os.needs_flushed
        location == current_chunk(h, os)
        start_location == IF first THEN location ELSE os.start_location
        located == [ os EXCEPT !.start_location = start_location ]
        prime == first /\ IsSome(location)
        r == chunk_reader_read_chunk(env, st, Unwrap(location).chunk)
        c0 == [ buffer |-> os.chunker, chunks |-> << >> ]
        c1 == IF prime
              THEN chunker_write_all(c0, Take(r.data, relative_position(Unwrap(location))))
              ELSE c0
        c2 == chunker_write_all(c1, buf)
        w == write_chunks_in(env, c2.chunks, os.new_chunks, st)
        chunked == [ located EXCEPT !.chunker = c2.buffer, !.new_chunks = w.new_chunks ]
    IN IF prime /\ r.status # "ok" THEN Outcome(h, located, st, r.status, 0)
       ELSE IF w.status # "ok" THEN Outcome(h, chunked, w.store, w.status, 0)
       ELSE Outcome(h,
                    [ chunked EXCEPT !.position = os.position + Len(buf),
                                     !.needs_flushed = TRUE ],
                    w.store, "ok", Len(buf))

\* impl Write for Object: write
Object_write_in(env, h, os, st, buf) == ObjectWriter_write_in(env, h, os, st, buf)

\* A flush that, when it fails, leaves the chunks stored so far in the handle.
flush_failed_spliced(h, os, st, status) ==
    Outcome([ size |-> SumSizes(h.chunks \o os.new_chunks),
              chunks |-> h.chunks \o os.new_chunks ],
            os, st, status, 0)

\* flush returning early with `?`: the handle is not touched.
flush_failed(h, os, st, status) == Outcome(h, os, st, status, 0)

\* impl Write for ObjectWriter: flush
ObjectWriter_flush_in(env, h, os, st) ==
    IF flush_is_noop(os) THEN Outcome(h, os, st, "ok", 0)
    ELSE
    LET current == current_chunk(h, os)
        r == chunk_reader_read_chunk(env, st, Unwrap(current).chunk)
        c0 == [ buffer |-> os.chunker, chunks |-> << >> ]
        c1 == IF IsSome(current)
              THEN chunker_write_all(c0, Drop(r.data, relative_position(Unwrap(current))))
              ELSE c0
        c2 == chunker_flush(c1)
        w == write_chunks_in(env, c2.chunks, os.new_chunks, st)
        start_index == flush_start_index(os)
        end_index == flush_end_index(h, current)
        chunks == Take(h.chunks, start_index) \o w.new_chunks \o Drop(h.chunks, end_index)
        unwritten == [ os EXCEPT !.chunker = c2.buffer, !.new_chunks = w.new_chunks ]
        drained == [ os EXCEPT !.chunker = c2.buffer, !.new_chunks = << >> ]
    IN IF IsSome(current) /\ r.status # "ok" THEN flush_failed(h, os, st, r.status)
       ELSE IF w.status # "ok" THEN flush_failed(h, unwritten, w.store, w.status)
       ELSE IF start_index > end_index
       THEN \* Vec::splice panics on a range that starts after its end.
            Outcome(h, drained, w.store, "panic", 0)
       ELSE Outcome([ size |-> SumSizes(chunks), chunks |-> chunks ],
                    [ drained EXCEPT !.start_location = None, !.needs_flushed = FALSE ],
                    w.store, "ok", 0)

\* impl Write for Object: flush
Object_flush_in(env, h, os, st) == ObjectWriter_flush_in(env, h, os, st)

\* ObjectWriter::truncate, each `?` returning early: the flush, the read of the
\* chunk under the new end, the write of what is kept of it.
ObjectWriter_truncate_in(env, h0, os0, st0, length) ==
    LET f == ObjectWriter_flush_in(env, h0, os0, st0)
        h == f.handle
        os == f.os
        st == f.store
        original_position == os.position
        moved == [ os EXCEPT !.position = length ]
        end_location == current_chunk(h, moved)
        loc == Unwrap(end_location)
        last_chunk == chunk_reader_read_chunk(env, st, loc.chunk)
        new_last_chunk == write_chunks_in(env, << Take(last_chunk.data, relative_position(loc)) >>,
                                          << >>, st)
    IN IF f.status # "ok" THEN f
       ELSE IF length >= h.size THEN Outcome(h, os, st, "ok", 0)
       ELSE IF ~IsSome(end_location) THEN Outcome(h, moved, st, "ok", 0)
       ELSE IF last_chunk.status # "ok" THEN Outcome(h, moved, st, last_chunk.status, 0)
       ELSE IF new_last_chunk.status # "ok"
            THEN Outcome(h, moved, new_last_chunk.store, new_last_chunk.status, 0)
       ELSE Outcome([ size |-> truncate_size(length, h.size),
                      chunks |-> Take(h.chunks, loc.index) \o new_last_chunk.new_chunks ],
                    [ os EXCEPT !.position = Min(original_position, length) ],
                    new_last_chunk.store, "ok", 0)

\* Object::truncate
Object_truncate_in(env, h, os, st, length) == ObjectWriter_truncate_in(env, h, os, st, length)

\* impl Read for Object: flush, then read.
Object_read_in(env, h, os, st, size) ==
    LET f == ObjectWriter_flush_in(env, h, os, st)
    IN IF f.status # "ok" THEN [ f EXCEPT !.ret = << >> ]
       ELSE ObjectReader_read_in(env, f.handle, f.os, f.store, size)

\* impl Drop for Object: flush().ok(), the error is dropped with the object
\* state; followed by Object::new on the same handle.
Object_reopen_in(env, h, os, st) ==
    LET f == ObjectWriter_flush_in(env, h, os, st)
    IN IF f.status = "panic" THEN f
       ELSE Outcome(f.handle, NewObjectState, f.store, "ok", 0)

----------------------------------------------------------------------------
(* What an object holds, and what a reader gets out of it.                 *)

\* The bytes of the object: the stored payloads of its chunks, in order.
RECURSIVE ChunksContent(_, _)
ChunksContent(chunks, st) ==
    IF Len(chunks) = 0 THEN << >>
    ELSE read_chunk(st, Head(chunks)) \o ChunksContent(Tail(chunks), st)

Content(h, st) == ChunksContent(h.chunks, st)

\* Read with a buffer of `size` bytes until read returns 0 bytes.
RECURSIVE ReadToEnd(_, _, _, _)
ReadToEnd(h, os, st, size) ==
    LET r == ObjectReader_read(h, os, st, size)
    IN IF Len(r.ret) = 0 THEN << >>
       ELSE r.ret \o ReadToEnd(r.handle, r.os, r.store, size)

\* seek(Start(0)), then read until read returns 0.
ReadAll(h, os, st, size) ==
    LET s == ObjectReader_seek(h, os, st, [ kind |-> "Start", offset |-> 0 ], FALSE)
    IN ReadToEnd(s.handle, s.os, s.store, size)

\* ObjectHandle::repo_id: the identifier of the repository the object is in.
RepoId == 0

\* The identifiers of two repositories that were created independently.
RepoIds == { 0, 1 }

\* A content id that leaves the repository out.
content_id_unscoped(repo_id, h) == [ repo_id |-> RepoId, size |-> h.size, chunks |-> h.chunks ]

\* ObjectHandle::content_id, of an object of the repository repo_id
content_id_in(repo_id, h) == [ repo_id |-> repo_id, size |-> h.size, chunks |-> h.chunks ]

\* ObjectHandle::content_id
content_id(h) == content_id_in(RepoId, h)

\* ContentId::compare_contents, the loop over the chunks and the read after it.
\* other is what is left of the source, buffer_len the length of the buffer.
RECURSIVE compare_chunks(_, _, _)
compare_chunks(chunks, other, buffer_len) ==
    IF Len(chunks) = 0
    THEN \* other.read(&mut buffer): as many bytes as the buffer takes
         Min(buffer_len, Len(other)) = 0
    ELSE LET chunk == Head(chunks)
             grown == Max(buffer_len, chunk.size)
         IN IF Len(other) < chunk.size THEN FALSE  \* read_exact: UnexpectedEof
            ELSE IF chunk.hash # chunk_hash(Take(other, chunk.size)) THEN FALSE
            ELSE compare_chunks(Tail(chunks), Drop(other, chunk.size), grown)

\* ContentId::compare_contents: the buffer starts as Vec::new().
compare_contents(id, other) == compare_chunks(id.chunks, other, 0)

\* The handle of a second object of the repository that was inserted empty,
\* was written the bytes B in one write and was flushed.
WrittenAfresh(B, st) ==
    LET w == Object_write(EmptyHandle, NewObjectState, st, B)
    IN Object_flush(w.handle, w.os, w.store).handle

\* The same object with the chunk store it leaves behind.
WriteAfresh(B, st) ==
    LET w == Object_write(EmptyHandle, NewObjectState, st, B)
    IN Object_flush(w.handle, w.os, w.store)

\* C with B written over it at offset p.
Splice(C, p, B) == Take(C, p) \o B \o Drop(C, p + Len(B))

----------------------------------------------------------------------------
(* The repository controller: header, blob store, commit, rollback, clean. *)

\* The names objects are inserted under.
Names == { "k" }
\* No object of the repository grows beyond RepoLen bytes.
RepoLen == 1
\* The blob store holds at most MaxHeaders header blobs.
MaxHeaders == 2

\* The payload read in place of a chunk whose blob is gone.
Corrupt == << 0 - 1 >>

\* Header: the object map, chunkmap (hash -> BlobId) and refcounts (hash -> count).
EmptyHeader ==
    [ objects |-> [ name \in Names |-> None ], chunkmap |-> << >>, refcounts |-> << >> ]

\* A fresh BlobId: the smallest identifier that is not in use.
FreshId(used) == CHOOSE id \in 0 .. Cardinality(used) :
                    /\ id \notin used
                    /\ \A other \in 0 .. Cardinality(used) : other \notin used => id <= other

\* The BlobId chosen for the blob of a chunk: opaque, one per payload.
ChunkBlobId(h) == h

\* create: an empty header in a header blob, and the pointer blob that names it.
CreatedBackend ==
    [ pointer |-> 0, headers |-> (0 :> EmptyHeader), chunks |-> << >> ]

\* The header the pointer blob names: the committed header.
CommittedHeader(be) == be.headers[be.pointer]

\* The chunk store as an Object sees it: hash -> payload, through chunkmap and
\* the chunk blobs.
ChunkView(hd, be) ==
    [ h \in { k \in DOMAIN hd.chunkmap : hd.chunkmap[k] \in DOMAIN be.chunks }
        |-> be.chunks[hd.chunkmap[h]] ]

\* The number of references to the chunk with hash h in a sequence of chunks.
RECURSIVE Occurrences(_, _)
Occurrences(chunks, h) ==
    IF Len(chunks) = 0 THEN 0
    ELSE (IF Head(chunks).hash = h THEN 1 ELSE 0) + Occurrences(Tail(chunks), h)

\* The number of references to h in the handles of an object map.
RECURSIVE References(_, _, _)
References(objects, names, h) ==
    IF names = {} THEN 0
    ELSE LET name == CHOOSE n \in names : TRUE
         IN (IF IsSome(objects[name]) THEN Occurrences(Unwrap(objects[name]).chunks, h) ELSE 0)
            + References(objects, names \ { name }, h)

\* refcounts after write_chunk and drop_chunk have counted every reference.
Refcounts(objects, chunkmap) ==
    [ h \in DOMAIN chunkmap |-> References(objects, Names, h) ]

\* write_chunk on hashes the chunkmap does not know: each payload goes to a
\* blob under its BlobId and the chunkmap learns the hash.
RECURSIVE StoreChunks(_, _, _, _)
StoreChunks(hashes, payloads, chunkmap, chunks) ==
    IF hashes = {} THEN [ chunkmap |-> chunkmap, chunks |-> chunks ]
    ELSE LET h == CHOOSE k \in hashes : \A other \in hashes : k <= other
             id == ChunkBlobId(h)
         IN StoreChunks(hashes \ { h }, payloads,
                        [ k \in DOMAIN chunkmap \cup { h } |->
                            IF k = h THEN id ELSE chunkmap[k] ],
                        [ b \in DOMAIN chunks \cup { id } |->
                            IF b = id THEN payloads[h] ELSE chunks[b] ])

\* The header and the blob store once an Object on `name` has left the handle
\* new_handle and the chunk store new_store behind.
Stored(hd, be, name, new_handle, new_store) ==
    LET known == DOMAIN ChunkView(hd, be)
        s == StoreChunks(DOMAIN new_store \ known, new_store, hd.chunkmap, be.chunks)
        objects == [ hd.objects EXCEPT ![name] = Some(new_handle) ]
    IN [ header |-> [ objects |-> objects,
                      chunkmap |-> s.chunkmap,
                      refcounts |-> Refcounts(objects, s.chunkmap) ],
         backend |-> [ be EXCEPT !.chunks = s.chunks ] ]

\* get_mut(name), seek(Start(p)), write(buf), flush, drop.
Repo_write(hd, be, name, p, buf) ==
    LET st == ChunkView(hd, be)
        s == Object_seek(Unwrap(hd.objects[name]), NewObjectState, st,
                         [ kind |-> "Start", offset |-> p ], FALSE)
        w == Object_write(s.handle, s.os, s.store, buf)
        f == Object_flush(w.handle, w.os, w.store)
    IN Stored(hd, be, name, f.handle, f.store)

\* get_mut(name), truncate(length), drop.
Repo_truncate(hd, be, name, length) ==
    LET t == Object_truncate(Unwrap(hd.objects[name]), NewObjectState,
                             ChunkView(hd, be), length)
    IN Stored(hd, be, name, t.handle, t.store)

\* insert(name): an empty handle is registered under the name.
Repo_insert(hd, name) ==
    LET objects == [ hd.objects EXCEPT ![name] = Some(EmptyHandle) ]
    IN [ hd EXCEPT !.objects = objects, !.refcounts = Refcounts(objects, hd.chunkmap) ]

\* remove(name): the handle is dropped, and with it its references.
Repo_remove(hd, name) ==
    LET objects == [ hd.objects EXCEPT ![name] = None ]
    IN [ hd EXCEPT !.objects = objects, !.refcounts = Refcounts(objects, hd.chunkmap) ]

\* The hashes a header holds references to.
Referenced(hd) == { h \in DOMAIN hd.refcounts : hd.refcounts[h] > 0 }

\* A clean that keeps only what the header in memory references.
clean_keep_in_memory(hd, be) ==
    { hd.chunkmap[h] : h \in Referenced(hd) }

\* clean: the chunk blobs that stay are those referenced by the header in
\* memory or by the committed header.
clean_keep(hd, be) ==
    { hd.chunkmap[h] : h \in Referenced(hd) }
        \cup { CommittedHeader(be).chunkmap[h] : h \in Referenced(CommittedHeader(be)) }

\* clean: entries with refcount 0 leave the chunkmap; chunk blobs that nothing
\* references and header blobs other than the current one are deleted.
Repo_clean(hd, be) ==
    LET keep == clean_keep(hd, be)
    IN [ header |-> [ hd EXCEPT !.chunkmap = [ h \in Referenced(hd) |-> hd.chunkmap[h] ],
                                !.refcounts = [ h \in Referenced(hd) |-> hd.refcounts[h] ] ],
         backend |-> [ be EXCEPT !.headers = [ id \in { be.pointer } |-> be.headers[id] ],
                                 !.chunks = [ id \in DOMAIN be.chunks \cap keep |->
                                                be.chunks[id] ] ] ]

\* A rollback that keeps the header in memory.
rollback_keep(hd, be) == hd

\* rollback, and the load of open: the header is read back through the pointer.
Repo_rollback(hd, be) == CommittedHeader(be)

\* A pointer swap that leaves the pointer where it was.
swap_pointer_stale(be, id) == be

\* commit (c): the pointer blob is overwritten with the BlobId of the new header.
swap_pointer(be, id) == [ be EXCEPT !.pointer = id ]

\* What the objects of a header read as: name -> None, or Some(bytes).
RECURSIVE ReadChunks(_, _, _)
ReadChunks(chunks, chunkmap, blobs) ==
    IF Len(chunks) = 0 THEN << >>
    ELSE LET h == Head(chunks).hash
         IN (IF h \in DOMAIN chunkmap /\ chunkmap[h] \in DOMAIN blobs
             THEN blobs[chunkmap[h]] ELSE Corrupt)
            \o ReadChunks(Tail(chunks), chunkmap, blobs)

View(hd, be) ==
    [ name \in Names |->
        IF IsSome(hd.objects[name])
        THEN Some(ReadChunks(Unwrap(hd.objects[name]).chunks, hd.chunkmap, be.chunks))
        ELSE None ]

\* No commit in progress.
IdleSession == [ pc |-> "idle", snapshot |-> EmptyHeader, new_id |-> 0 ]

\* History of the repository: what the last completed pointer swap made durable,
\* what the commit in progress found and is committing, where a kill hit it,
\* whether the header in memory was just reloaded (and lost changes by it), and
\* whether the last clean deleted a chunk blob.
NoHistory ==
    [ durable |-> View(EmptyHeader, CreatedBackend),
      pre |-> View(EmptyHeader, CreatedBackend),
      post |-> View(EmptyHeader, CreatedBackend),
      killed |-> "no", after |-> "", discarded |-> FALSE, swept |-> FALSE ]

----------------------------------------------------------------------------
(* The state machine: one Object open on one handle.                       *)

NoPend == [ active |-> FALSE, p |-> 0, data |-> << >>, retry |-> "none" ]

\* What the writes since the last flush amount to, after one more write that
\* returned status: "failed" is one failed write and nothing else, "retried" is
\* one failed write and then one successful write.
Retry(status) ==
    IF status # "ok"
    THEN IF pend.retry = "none" /\ ~pend.active THEN "failed" ELSE "other"
    ELSE IF pend.retry = "failed" THEN "retried"
    ELSE IF pend.retry = "none" THEN "none"
    ELSE "other"

\* Nothing observed: the value of `last` after a handler that is not watched.
Idle ==
    [ op |-> "", kind |-> "", n |-> 0, status |-> "ok", ret |-> 0, data |-> << >>,
      pre_size |-> 0, pre_chunks |-> 0, pre_pos |-> 0, pre_pending |-> FALSE,
      env |-> NoFaults ]

\* The handler that ran: its name, its arguments, its result, and the size, the
\* number of chunks, the position and the pending flag it found when it was called.
Record(watched, op, kind, n, o) ==
    IF ~watched THEN Idle
    ELSE [ op |-> op, kind |-> kind, n |-> n, status |-> o.status,
           ret |-> IF op = "read" THEN Len(o.ret) ELSE o.ret,
           data |-> IF op = "read" THEN o.ret ELSE << >>,
           pre_size |-> handle.size, pre_chunks |-> Len(handle.chunks),
           pre_pos |-> object_state.position,
           pre_pending |-> object_state.needs_flushed,
           env |-> NoFaults ]

\* The same, for a handler that ran while the chunk store failed as env says.
RecordIn(watched, op, n, o, env) ==
    IF ~watched THEN Idle
    ELSE [ Record(watched, op, "", n, o) EXCEPT !.env = env ]

\* ---- The FUSE adapter: file handles over the object of one inode ----

\* The file handles the kernel may hold on the inode at once.
Fhs == { 1, 2 }

\* The open flags the handlers look at; "" is none of them.
OpenFlags == { "", "O_APPEND", "O_SYNC" }

\* Where the repository fails a handler: nowhere, in set_metadata, in commit.
RepoFailures == { "none", "set_metadata", "commit" }

\* The names of the entries of the file system, and how deep below the mount
\* root they lie at most.
FileNames == { "a", "b" }
MaxDepth == 2

\* The mount root, and the paths below it.
Root == << >>
Paths == UNION { [ 1 .. n -> FileNames ] : n \in 1 .. MaxDepth }

\* RelativePath::parent, RelativePath::join, RelativePath::starts_with
path_parent(path) == SubSeq(path, 1, Len(path) - 1)
path_join(path, name) == Append(path, name)
path_starts_with(path, base) ==
    /\ Len(base) <= Len(path)
    /\ SubSeq(path, 1, Len(base)) = base

\* FileRepo::exists, FileRepo::is_directory; the mount root is a directory.
exists(entries, path) == path = Root \/ ( path \in Paths /\ IsSome(entries[path]) )
is_directory(entries, path) ==
    \/ path = Root
    \/ ( path \in Paths /\ IsSome(entries[path])
                         /\ Unwrap(entries[path]).file_type = "Directory" )

\* The entries directly below a path.
children(entries, path) ==
    { child \in Paths : path_parent(child) = path /\ IsSome(entries[child]) }

\* What a call of the repository returns: the entries after it and Ok or the
\* error.
Returned(entries, status) == [ entries |-> entries, status |-> status ]

\* FileRepo::create: the parent must be a directory and the path free.
FileRepo_create(entries, path, entry) ==
    IF path \notin Paths \/ ~is_directory(entries, path_parent(path))
    THEN Returned(entries, "InvalidPath")
    ELSE IF exists(entries, path) THEN Returned(entries, "AlreadyExists")
    ELSE Returned([ entries EXCEPT ![path] = Some(entry) ], "ok")

\* FileRepo::remove: the entry must exist and have no children.
FileRepo_remove(entries, path) ==
    IF path \notin Paths \/ ~exists(entries, path) THEN Returned(entries, "NotFound")
    ELSE IF children(entries, path) # { } THEN Returned(entries, "NotEmpty")
    ELSE Returned([ entries EXCEPT ![path] = None ], "ok")

\* FileRepo::copy: the entry of the source is created at the destination.
FileRepo_copy(entries, source, dest) ==
    IF source \notin Paths \/ ~exists(entries, source) THEN Returned(entries, "NotFound")
    ELSE FileRepo_create(entries, dest, Unwrap(entries[source]))

\* What a handler of the tree leaves: the entries of the repository, the
\* paths of the inode table, and what it replies.
Answered(entries, inodes, status) ==
    [ entries |-> entries, inodes |-> inodes, status |-> status ]

\* InodeTable::path(parent): the parent has an inode.
has_inode(inodes, path) == path = Root \/ path \in inodes

\* mknod, mkdir, symlink: create, commit, inodes.insert.
FuseAdapter_create(entries, inodes, parent, name, entry, fail) ==
    LET entry_path == path_join(parent, name)
        created == FileRepo_create(entries, entry_path, entry)
    IN IF ~has_inode(inodes, parent) THEN Answered(entries, inodes, "ENOENT")
       ELSE IF created.status # "ok" THEN Answered(entries, inodes, created.status)
       ELSE IF fail = "commit" THEN Answered(created.entries, inodes, "Io")
       ELSE Answered(created.entries, inodes \cup { entry_path }, "ok")

\* unlink (of_directory is FALSE) and rmdir (of_directory is TRUE): remove,
\* commit, inodes.remove.
FuseAdapter_remove(entries, inodes, parent, name, of_directory, fail) ==
    LET entry_path == path_join(parent, name)
        removed == FileRepo_remove(entries, entry_path)
    IN IF ~has_inode(inodes, parent) \/ entry_path \notin inodes
       THEN Answered(entries, inodes, "ENOENT")
       ELSE IF is_directory(entries, entry_path) # of_directory
       THEN Answered(entries, inodes, IF of_directory THEN "ENOTDIR" ELSE "EISDIR")
       ELSE IF removed.status # "ok" THEN Answered(entries, inodes, removed.status)
       ELSE IF fail = "commit" THEN Answered(removed.entries, inodes, "Io")
       ELSE Answered(removed.entries, inodes \ { entry_path }, "ok")

\* rename: the destination is removed unless it is a directory that is not
\* empty, the source is copied to it, the repository is committed.
FuseAdapter_rename(entries, inodes, parent, name, newparent, newname, fail) ==
    LET source_path == path_join(parent, name)
        dest_path == path_join(newparent, newname)
        removed == FileRepo_remove(entries, dest_path)
        copied == FileRepo_copy(removed.entries, source_path, dest_path)
    IN IF ~has_inode(inodes, parent) \/ ~has_inode(inodes, newparent)
       THEN Answered(entries, inodes, "ENOENT")
       ELSE IF ~exists(entries, source_path) THEN Answered(entries, inodes, "ENOENT")
       ELSE IF path_starts_with(dest_path, source_path)
       THEN Answered(entries, inodes, "EINVAL")
       ELSE IF ~is_directory(entries, path_parent(dest_path))
       THEN Answered(entries, inodes, "ENOTDIR")
       ELSE IF removed.status = "NotEmpty" THEN Answered(entries, inodes, "NotEmpty")
       ELSE IF fail = "commit" THEN Answered(copied.entries, inodes, "Io")
       ELSE Answered(copied.entries, inodes, "ok")

\* FuseAdapter::new: no handle is open; `time` is the time a conversion is
\* followed on, if one is; `listing` is the directory handle that is open and
\* what the kernel has received through it.
NewFuseAdapter ==
    [ handles |-> [ fh \in Fhs |-> None ], time |-> None, listing |-> None,
      entries |-> [ path \in Paths |-> None ], inodes |-> { } ]

\* Duration: the nanoseconds of a second.
NanosPerSec == 1000000000

\* A SystemTime is its distance from UNIX_EPOCH in nanoseconds, negative
\* before the epoch; a Duration is a number of nanoseconds.
Abs(x) == IF x < 0 THEN 0 - x ELSE x

\* Duration::new(secs, nanos)
Duration_new(secs, nanos) == secs * NanosPerSec + nanos

\* to_system_time: Duration::new(sec.abs(), nsec.abs()), added to the epoch
\* if sec.is_positive() and subtracted from it otherwise.
to_system_time(time) ==
    LET duration == Duration_new(Abs(time.sec), Abs(time.nsec))
    IN IF time.sec > 0 THEN duration ELSE 0 - duration

\* to_timespec: duration_since(UNIX_EPOCH) is Ok(duration) from the epoch
\* on and Err(error) before it, error.duration() being the distance.
to_timespec(time) ==
    IF time >= 0
    THEN [ sec |-> time \div NanosPerSec, nsec |-> time % NanosPerSec ]
    ELSE [ sec |-> 0 - ((0 - time) \div NanosPerSec),
           nsec |-> 0 - ((0 - time) % NanosPerSec) ]

\* FuseAdapter::open: the state of a new file handle.
FileHandle(flags) == [ flags |-> flags, position |-> 0 ]

\* ObjectTable::open: the object that is open on the inode, or a new one on
\* the entry's handle; a closed object is a new one when it is next opened.
ObjectTable_open(h, os, st) == Outcome(h, os, st, "ok", 0)

\* ObjectTable::open_commit: the same object with its changes committed.
ObjectTable_open_commit(h, os, st) == Object_flush(h, os, st)

\* ObjectTable::commit: the changes of the open object are committed.
ObjectTable_commit(h, os, st) == Object_flush(h, os, st)

\* ObjectTable::close: the object of the inode is dropped.
ObjectTable_close(h, os, st) == Object_reopen(h, os, st)

\* What a handler leaves: the object, the state of its file handle, and in
\* o.status and o.ret what it replies.
Handled(o, state) == [ o |-> o, state |-> state ]

\* try_result! after the object was opened: the handler replies the error.
Failed(o, state, status) ==
    Handled([ o EXCEPT !.status = IF o.status = "panic" THEN "panic" ELSE status ], state)

\* object.seek(pos) on the object that open_commit returned.
sought_object(object, pos) ==
    IF object.status # "ok" THEN object
    ELSE Object_seek(object.handle, object.os, object.store, pos, FALSE)

\* write: the object the data is written to, opened at the place of the write.
write_object(state, h, os, st, offset) ==
    IF state.flags = "O_APPEND"
    THEN CHOOSE r \in { sought_object(object, [ kind |-> "End", offset |-> 0 ]) :
                        object \in { ObjectTable_open_commit(h, os, st) } } : TRUE
    ELSE IF offset = state.position
    THEN ObjectTable_open(h, os, st)
    ELSE CHOOSE r \in { sought_object(object, [ kind |-> "Start", offset |-> offset ]) :
                        object \in { ObjectTable_open_commit(h, os, st) } } : TRUE

\* After an error that follows the write: objects.close(ino), the error reply.
write_closed(w, state, status) ==
    CHOOSE r \in { Failed(c, state, status) :
                   c \in { ObjectTable_close(w.handle, w.os, w.store) } } : TRUE

\* write with O_SYNC, after objects.commit(ino) has returned `committed`.
write_synced(committed, written, ret, fail) ==
    IF committed.status # "ok" THEN write_closed(committed, written, committed.status)
    ELSE IF fail = "commit" THEN write_closed(committed, written, "Io")
    ELSE Handled([ committed EXCEPT !.ret = ret ], written)

\* write, after object.write(data) has returned w.
write_written(state, w, offset, fail) ==
    LET written == [ state EXCEPT !.position = offset + w.ret ]
    IN IF w.status # "ok" THEN Failed(w, state, w.status)
       ELSE IF fail = "set_metadata" THEN write_closed(w, written, "Io")
       ELSE IF state.flags # "O_SYNC" THEN Handled(w, written)
       ELSE CHOOSE r \in { write_synced(committed, written, w.ret, fail) :
                           committed \in { ObjectTable_commit(w.handle, w.os, w.store) } } :
                TRUE

\* write, on the object it has opened.
write_opened(state, object, offset, data, fail) ==
    IF object.status # "ok" THEN Failed(object, state, object.status)
    ELSE CHOOSE r \in { write_written(state, w, offset, fail) :
                        w \in { Object_write(object.handle, object.os, object.store,
                                             data) } } : TRUE

\* Filesystem::write
FuseAdapter_write(state, h, os, st, offset, data, fail) ==
    CHOOSE r \in { write_opened(state, object, offset, data, fail) :
                   object \in { write_object(state, h, os, st, offset) } } : TRUE

\* A read that calls object.read once and replies what that returned.
read_once(o, size, buffer, steps) ==
    CHOOSE l \in
        { [ r EXCEPT !.ret = [ data |-> buffer \o r.ret, steps |-> steps + 1 ] ] :
          r \in { Object_read(o.handle, o.os, o.store, size - Len(buffer)) } } : TRUE

\* read: the loop that reads until a read returns nothing; `steps` counts the
\* reads it has made.
RECURSIVE read_loop(_, _, _, _)
read_loop(o, size, buffer, steps) ==
    CHOOSE l \in
        { IF r.status # "ok" \/ Len(r.ret) = 0
          THEN [ r EXCEPT !.ret = [ data |-> buffer, steps |-> steps + 1 ] ]
          ELSE read_loop(r, size, buffer \o r.ret, steps + 1) :
          r \in { Object_read(o.handle, o.os, o.store, size - Len(buffer)) } } : TRUE

\* read, after the loop has returned l.
read_done(state, l, offset, fail) ==
    LET moved == [ state EXCEPT !.position = offset + Len(l.ret.data) ]
    IN IF l.status # "ok" THEN Failed(l, state, l.status)
       ELSE IF fail = "set_metadata" THEN Failed(l, moved, "Io")
       ELSE Handled(l, moved)

\* read, on the object that was opened and sought to the offset.
read_sought(state, sought, offset, size, fail) ==
    IF sought.status # "ok"
    THEN Failed([ sought EXCEPT !.ret = [ data |-> << >>, steps |-> 0 ] ], state,
                sought.status)
    ELSE CHOOSE r \in { read_done(state, l, offset, fail) :
                        l \in { read_loop(sought, size, << >>, 0) } } : TRUE

\* Filesystem::read
FuseAdapter_read(state, h, os, st, offset, size, fail) ==
    CHOOSE r \in
        { read_sought(state, sought, offset, size, fail) :
          sought \in { sought_object(object, [ kind |-> "Start", offset |-> offset ]) :
                       object \in { ObjectTable_open_commit(h, os, st) } } } : TRUE

\* setattr, after the object was opened.
setattr_opened(object, size, fail) ==
    IF object.status # "ok" THEN object
    ELSE CHOOSE r \in { IF t.status = "ok" /\ fail # "none"
                        THEN [ t EXCEPT !.status = "Io" ] ELSE t :
                        t \in { Object_truncate(object.handle, object.os, object.store,
                                                size) } } : TRUE

\* Filesystem::setattr with a size: the object is truncated, then the
\* metadata is set and the repository committed.
FuseAdapter_setattr(h, os, st, size, fail) ==
    CHOOSE r \in { setattr_opened(object, size, fail) :
                   object \in { ObjectTable_open_commit(h, os, st) } } : TRUE

\* Filesystem::flush
FuseAdapter_flush(h, os, st) == ObjectTable_commit(h, os, st)

\* Filesystem::release: the object is closed with the handle.
FuseAdapter_release(h, os, st) ==
    CHOOSE r \in { [ c EXCEPT !.status = IF c.status = "panic" THEN "panic" ELSE "ok" ] :
                   c \in { ObjectTable_close(h, os, st) } } : TRUE

\* The offsets a caller seeks by: around the object, and the extremes of the type.
StartOffsets == (0 .. (MaxLen + 1)) \cup { U64Max }
SignedOffsets == ((0 - (MaxLen + 1)) .. (MaxLen + 1)) \cup { I64Min, I64Max }

\* The seek overflows an i64 sum or difference: only then do the builds differ.
SeekOverflows(h, os, pos) ==
    \/ pos.kind = "End" /\ pos.offset <= h.size /\ h.size - pos.offset > I64Max
    \/ pos.kind = "Current" /\ os.position + pos.offset > I64Max

\* The outcome of a handler becomes the state of the object.
ApplyObject(o) ==
    /\ handle' = o.handle
    /\ object_state' = o.os
    /\ store' = o.store
    /\ alive' = (o.status # "panic")
    /\ UNCHANGED <<header, backend, session, history>>

Apply(o) ==
    /\ ApplyObject(o)
    /\ UNCHANGED fuse

Init ==
    /\ handle = EmptyHandle
    /\ object_state = NewObjectState
    /\ store = << >>
    /\ alive = TRUE
    /\ pend = NoPend
    /\ last = Idle
    /\ header = EmptyHeader
    /\ backend = CreatedBackend
    /\ session = IdleSession
    /\ history = NoHistory
    /\ fuse = NewFuseAdapter

\* The bytes of a handler's outcome stay within the bounds of the model: a
\* flush that is tried again after it failed stores its chunks again.
Bounded(o) ==
    /\ o.handle.size <= MaxLen
    /\ SumSizes(o.os.new_chunks) + Len(o.os.chunker) <= MaxLen

Write(watched) ==
    /\ alive
    /\ \E buf \in SeqsUpTo(MaxBuf) :
        \E o \in { Object_write(handle, object_state, store, buf) } :
           /\ object_state.position + Len(buf) <= MaxLen
           /\ Bounded(o)
           /\ Apply(o)
           /\ pend' = IF pend.active
                      THEN [ pend EXCEPT !.data = pend.data \o buf, !.retry = Retry("ok") ]
                      ELSE [ active |-> TRUE, p |-> object_state.position, data |-> buf,
                             retry |-> Retry("ok") ]
           /\ last' = Record(watched, "write", "", Len(buf), o)

Flush(watched) ==
    /\ alive
    /\ \E o \in { Object_flush(handle, object_state, store) } :
          /\ Apply(o)
          /\ pend' = NoPend
          /\ last' = Record(watched, "flush", "", 0, o)

\* A seek with a SeekFrom of one of the given kinds.
SeekFrom(watched, kinds) ==
    /\ alive
    /\ \E f \in { ObjectWriter_flush(handle, object_state, store) } :
       \E kind \in kinds :
       \E offset \in (IF kind = "Start" THEN StartOffsets ELSE SignedOffsets) :
       \E overflow_checks \in
            (IF SeekOverflows(f.handle, f.os, [ kind |-> kind, offset |-> offset ])
             THEN BOOLEAN ELSE { FALSE }) :
       \E o \in { Object_seek_flushed(f, [ kind |-> kind, offset |-> offset ],
                                      overflow_checks) } :
           /\ Apply(o)
           /\ pend' = NoPend
           /\ last' = Record(watched, "seek", kind, offset, o)

Seek(watched) == SeekFrom(watched, { "Start", "End", "Current" })

Read(watched) ==
    /\ alive
    /\ \E size \in 0 .. MaxBuf :
           \E o \in { Object_read(handle, object_state, store, size) } :
              /\ Apply(o)
              /\ pend' = NoPend
              /\ last' = Record(watched, "read", "", size, o)

Truncate(watched) ==
    /\ alive
    /\ \E length \in 0 .. (MaxLen + 1) :
           \E o \in { Object_truncate(handle, object_state, store, length) } :
              /\ Apply(o)
              /\ pend' = NoPend
              /\ last' = Record(watched, "truncate", "", length, o)

Serialize(watched) ==
    /\ alive
    /\ \E value \in Value :
           \E o \in { Object_serialize(handle, object_state, store, value) } :
              /\ Apply(o)
              /\ pend' = NoPend
              /\ last' = Record(watched, "serialize", "", value, o)

Deserialize(watched) ==
    /\ alive
    /\ \E o \in { Object_deserialize(handle, object_state, store) } :
          /\ Apply(o)
          /\ pend' = pend
          /\ last' = Record(watched, "deserialize", "", 0, o)

Reopen(watched) ==
    /\ alive
    /\ \E o \in { Object_reopen(handle, object_state, store) } :
          /\ Apply(o)
          /\ pend' = NoPend
          /\ last' = Record(watched, "reopen", "", 0, o)

\* Where write_chunk fails: never, at once, or after one call.
WriteBudgets == { None, Some(0), Some(1) }

\* The ways the chunk store can fail a handler of this object: one of the
\* object's chunks fails to read as one of `kinds`, write_chunk fails as one
\* of `budgets`.
Envs(h, kinds, budgets) ==
    { [ reads |-> r, writes |-> w ] :
        r \in { None } \cup { Some([ hash |-> h.chunks[i].hash, kind |-> k ]) :
                                  i \in 1 .. Len(h.chunks), k \in kinds },
        w \in budgets }

FlushIn(watched) ==
    /\ alive
    /\ \E env \in Envs(handle, ReadErrors, WriteBudgets) :
       \E o \in { Object_flush_in(env, handle, object_state, store) } :
          /\ Bounded(o)
          /\ Apply(o)
          /\ pend' = IF o.status = "ok" THEN NoPend ELSE pend
          /\ last' = RecordIn(watched, "flush", 0, o, env)

WriteIn(watched) ==
    /\ alive
    /\ \E buf \in SeqsUpTo(MaxBuf) :
       \E env \in Envs(handle, { "InvalidData" }, WriteBudgets) :
        \E o \in { Object_write_in(env, handle, object_state, store, buf) } :
           /\ object_state.position + Len(buf) <= MaxLen
           /\ Bounded(o)
           /\ Apply(o)
           /\ pend' = IF o.status # "ok" THEN [ pend EXCEPT !.retry = Retry(o.status) ]
                      ELSE IF pend.active
                      THEN [ pend EXCEPT !.data = pend.data \o buf, !.retry = Retry("ok") ]
                      ELSE [ active |-> TRUE, p |-> object_state.position, data |-> buf,
                             retry |-> Retry("ok") ]
           /\ last' = RecordIn(watched, "write", Len(buf), o, env)

TruncateIn(watched) ==
    /\ alive
    /\ \E length \in 0 .. MaxLen :
       \E env \in Envs(handle, { "InvalidData" }, { None, Some(0) }) :
        \E o \in { Object_truncate_in(env, handle, object_state, store, length) } :
           /\ Bounded(o)
           /\ Apply(o)
           /\ pend' = IF o.os.needs_flushed THEN pend ELSE NoPend
           /\ last' = Record(watched, "truncate", "", length, o)

ReadIn(watched) ==
    /\ alive
    /\ \E size \in 0 .. MaxBuf :
       \E env \in Envs(handle, ReadErrors, { None }) :
           \E o \in { Object_read_in(env, handle, object_state, store, size) } :
              /\ Apply(o)
              /\ pend' = IF o.os.needs_flushed THEN pend ELSE NoPend
              /\ last' = RecordIn(watched, "read", size, o, env)

ReopenIn(watched) ==
    /\ alive
    /\ \E env \in Envs(handle, ReadErrors, WriteBudgets) :
       \E o \in { Object_reopen_in(env, handle, object_state, store) } :
          /\ Bounded(o)
          /\ Apply(o)
          /\ pend' = NoPend
          /\ last' = RecordIn(watched, "reopen", 0, o, env)

Verify(watched) ==
    /\ alive
    /\ \E env \in Envs(handle, ReadFaults, { None }) :
       \E o \in { Object_verify(env, handle, object_state, store) } :
          /\ Apply(o)
          /\ pend' = pend
          /\ last' = RecordIn(watched, "verify", 0, o, env)

\* Every handler of the Object, nothing watched.
Next ==
    \/ Write(FALSE)
    \/ Flush(FALSE)
    \/ Seek(FALSE)
    \/ Read(FALSE)
    \/ Truncate(FALSE)
    \/ Serialize(FALSE)
    \/ Reopen(FALSE)

Spec == Init /\ [][Next]_vars

\* Writing and flushing, the flush watched.
NextFlush ==
    \/ Write(FALSE)
    \/ Flush(TRUE)
    \/ Seek(FALSE)
    \/ Truncate(FALSE)

SpecFlush == Init /\ [][NextFlush]_vars

\* Truncation watched.
NextTruncate ==
    \/ Write(FALSE)
    \/ Flush(FALSE)
    \/ Seek(FALSE)
    \/ Truncate(TRUE)

SpecTruncate == Init /\ [][NextTruncate]_vars

\* Seeking watched.
NextSeek ==
    \/ Write(FALSE)
    \/ Flush(FALSE)
    \/ Seek(TRUE)

SpecSeek == Init /\ [][NextSeek]_vars

\* Seeking, the seeks from the end watched.
NextSeekEnd ==
    \/ Write(FALSE)
    \/ Flush(FALSE)
    \/ SeekFrom(TRUE, { "End" })
    \/ SeekFrom(FALSE, { "Start", "Current" })

SpecSeekEnd == Init /\ [][NextSeekEnd]_vars

\* Seeking and truncating over pending writes, both watched.
NextPending ==
    \/ Write(FALSE)
    \/ Flush(FALSE)
    \/ Seek(TRUE)
    \/ Truncate(TRUE)

SpecPending == Init /\ [][NextPending]_vars

\* Reading watched.
NextRead ==
    \/ Write(FALSE)
    \/ Flush(FALSE)
    \/ Seek(FALSE)
    \/ Truncate(FALSE)
    \/ Read(TRUE)

SpecRead == Init /\ [][NextRead]_vars

\* Verification watched, the chunk store failing under it.
NextVerify ==
    \/ Write(FALSE)
    \/ Flush(FALSE)
    \/ Truncate(FALSE)
    \/ Verify(TRUE)

SpecVerify == Init /\ [][NextVerify]_vars

\* Reading while chunks fail to read, the read watched.
NextCorruptRead ==
    \/ Write(FALSE)
    \/ SeekFrom(FALSE, { "Start" })
    \/ ReadIn(TRUE)

SpecCorruptRead == Init /\ [][NextCorruptRead]_vars

\* Flushing while the chunk store fails, the flush watched.
NextFailedFlush ==
    \/ Write(FALSE)
    \/ FlushIn(TRUE)
    \/ SeekFrom(FALSE, { "Start" })

SpecFailedFlush == Init /\ [][NextFailedFlush]_vars

\* Dropping the Object while the chunk store fails, the drop watched.
NextDrop ==
    \/ Write(FALSE)
    \/ FlushIn(FALSE)
    \/ SeekFrom(FALSE, { "Start" })
    \/ ReopenIn(TRUE)

SpecDrop == Init /\ [][NextDrop]_vars

\* Writing while the chunk store fails, the flush watched.
NextFailedWrite ==
    \/ WriteIn(FALSE)
    \/ Flush(TRUE)
    \/ SeekFrom(FALSE, { "Start" })

SpecFailedWrite == Init /\ [][NextFailedWrite]_vars

\* Truncating while the chunk store fails, the truncation watched.
NextFailedTruncate ==
    \/ Write(FALSE)
    \/ Flush(FALSE)
    \/ SeekFrom(FALSE, { "Start" })
    \/ TruncateIn(TRUE)

SpecFailedTruncate == Init /\ [][NextFailedTruncate]_vars

\* Serializing into the Object, watched.
NextSerialize ==
    \/ Write(FALSE)
    \/ Flush(FALSE)
    \/ Seek(FALSE)
    \/ Serialize(TRUE)

SpecSerialize == Init /\ [][NextSerialize]_vars

\* Deserializing from the Object, watched.
NextDeserialize ==
    \/ Write(FALSE)
    \/ Flush(FALSE)
    \/ SeekFrom(FALSE, { "Start" })
    \/ Deserialize(TRUE)

SpecDeserialize == Init /\ [][NextDeserialize]_vars

\* Writing, flushing, seeking from the start and truncating, nothing watched.
NextContentId ==
    \/ Write(FALSE)
    \/ Flush(FALSE)
    \/ SeekFrom(FALSE, { "Start" })
    \/ Truncate(FALSE)

SpecContentId == Init /\ [][NextContentId]_vars

\* Writing watched.
NextWrite ==
    \/ Write(TRUE)
    \/ Flush(FALSE)
    \/ SeekFrom(FALSE, { "Start" })
    \/ Truncate(FALSE)

SpecWrite == Init /\ [][NextWrite]_vars

----------------------------------------------------------------------------
(* The state machine of the repository: one open repository on one store.  *)

object_vars == <<handle, object_state, store, alive, pend, last, fuse>>

\* The history once the header in memory has been modified.
Modified ==
    [ history EXCEPT !.pre = history.durable, !.post = history.durable,
                     !.killed = "no", !.after = "", !.discarded = FALSE, !.swept = FALSE ]

Insert ==
    /\ session.pc = "idle"
    /\ \E name \in Names :
          /\ header' = Repo_insert(header, name)
          /\ UNCHANGED <<backend, session>>
          /\ history' = Modified
    /\ UNCHANGED object_vars

Remove ==
    /\ session.pc = "idle"
    /\ \E name \in Names :
          /\ IsSome(header.objects[name])
          /\ header' = Repo_remove(header, name)
          /\ UNCHANGED <<backend, session>>
          /\ history' = Modified
    /\ UNCHANGED object_vars

WriteObject ==
    /\ session.pc = "idle"
    /\ \E name \in Names, p \in 0 .. RepoLen, buf \in SeqsUpTo(MaxBuf) :
          /\ IsSome(header.objects[name])
          /\ Min(p, Unwrap(header.objects[name]).size) + Len(buf) <= RepoLen
          /\ \E r \in { Repo_write(header, backend, name, p, buf) } :
                /\ header' = r.header
                /\ backend' = r.backend
          /\ UNCHANGED session
          /\ history' = Modified
    /\ UNCHANGED object_vars

TruncateObject ==
    /\ session.pc = "idle"
    /\ \E name \in Names, length \in 0 .. RepoLen :
          /\ IsSome(header.objects[name])
          /\ \E r \in { Repo_truncate(header, backend, name, length) } :
                /\ header' = r.header
                /\ backend' = r.backend
          /\ UNCHANGED session
          /\ history' = Modified
    /\ UNCHANGED object_vars

\* commit (a): snapshot the header in memory.
CommitSnapshot ==
    /\ session.pc = "idle"
    /\ Cardinality(DOMAIN backend.headers) < MaxHeaders
    /\ session' = [ session EXCEPT !.pc = "snapshot", !.snapshot = header ]
    /\ history' = [ history EXCEPT !.pre = history.durable, !.post = View(header, backend),
                                   !.killed = "no" ]
    /\ UNCHANGED <<header, backend>>
    /\ UNCHANGED object_vars

\* commit (b): the snapshot is written to a new header blob with a fresh BlobId.
CommitWriteHeader ==
    /\ session.pc = "snapshot"
    /\ \E id \in { FreshId(DOMAIN backend.headers) } :
          /\ backend' = [ backend EXCEPT !.headers =
                            [ b \in DOMAIN backend.headers \cup { id } |->
                                IF b = id THEN session.snapshot ELSE backend.headers[b] ] ]
          /\ session' = [ session EXCEPT !.pc = "written", !.new_id = id ]
    /\ UNCHANGED <<header, history>>
    /\ UNCHANGED object_vars

\* commit (c): the pointer is swapped to the new header blob.
CommitSwapPointer ==
    /\ session.pc = "written"
    /\ backend' = swap_pointer(backend, session.new_id)
    /\ session' = [ session EXCEPT !.pc = "swapped" ]
    /\ history' = [ history EXCEPT !.durable = history.post ]
    /\ UNCHANGED header
    /\ UNCHANGED object_vars

\* commit (d): the old header blob is left to clean; commit returns.
CommitFinish ==
    /\ session.pc = "swapped"
    /\ session' = IdleSession
    /\ history' = [ history EXCEPT !.pre = history.durable ]
    /\ UNCHANGED <<header, backend>>
    /\ UNCHANGED object_vars

Rollback ==
    /\ session.pc = "idle"
    /\ header' = Repo_rollback(header, backend)
    /\ history' = [ history EXCEPT !.killed = "no", !.after = "rollback",
                                   !.discarded = (View(header, backend) # history.durable) ]
    /\ UNCHANGED <<backend, session>>
    /\ UNCHANGED object_vars

Clean ==
    /\ session.pc = "idle"
    /\ \E r \in { Repo_clean(header, backend) } :
          /\ header' = r.header
          /\ backend' = r.backend
          /\ history' = [ history EXCEPT !.swept =
                            (DOMAIN r.backend.chunks # DOMAIN backend.chunks) ]
    /\ UNCHANGED session
    /\ UNCHANGED object_vars

\* The process is killed: what is in memory is gone, the blob store stays.
Crash ==
    /\ session.pc # "closed"
    /\ header' = EmptyHeader
    /\ session' = [ IdleSession EXCEPT !.pc = "closed" ]
    /\ history' = [ history EXCEPT !.killed = session.pc, !.after = "",
                                   !.discarded = (View(header, backend) # history.durable) ]
    /\ UNCHANGED backend
    /\ UNCHANGED object_vars

\* open: read the pointer blob, load the header.
Open ==
    /\ session.pc = "closed"
    /\ header' = Repo_rollback(header, backend)
    /\ session' = IdleSession
    /\ history' = [ history EXCEPT !.after = "open" ]
    /\ UNCHANGED backend
    /\ UNCHANGED object_vars

NextRepo ==
    \/ Insert
    \/ Remove
    \/ WriteObject
    \/ TruncateObject
    \/ CommitSnapshot
    \/ CommitWriteHeader
    \/ CommitSwapPointer
    \/ CommitFinish
    \/ Rollback
    \/ Clean
    \/ Crash
    \/ Open

SpecRepo == Init /\ [][NextRepo]_vars

----------------------------------------------------------------------------
(* Round trip and splice.                                                  *)

\* C1: on a freshly inserted (empty) object, write(B) in any number of write
\* calls followed by flush() leaves an object that holds exactly B: its content
\* and its size are those of B, and seek(Start(0)) followed by reads until read
\* returns 0 yields B, whatever the length of the read buffer.
C1_RoundTrip ==
    [][ ( /\ last'.op = "flush"
          /\ last'.status = "ok"
          /\ pend.active
          /\ handle = EmptyHandle )
        => ( /\ Content(handle', store') = pend.data
             /\ handle'.size = Len(pend.data)
             /\ \A size \in 1 .. MaxBuf :
                    ReadAll(handle', object_state', store', size) = pend.data ) ]_vars

\* A fresh object was written in full and flushed into several chunks.
C1_Witness ==
    /\ last.op = "flush"
    /\ last.status = "ok"
    /\ last.pre_pending
    /\ last.pre_chunks = 0
    /\ handle.size = MaxLen
    /\ Len(handle.chunks) >= 2

\* C2: on a flushed object with content C, a write of B that starts at p < |C|,
\* followed by flush(), leaves C[0..p] || B || C[p+|B|..] and the size
\* max(|C|, p+|B|).
C2_Splice ==
    [][ ( /\ last'.op = "flush"
          /\ last'.status = "ok"
          /\ pend.active
          /\ pend.p < handle.size )
        => LET C == Content(handle, store)
           IN /\ Content(handle', store') = Splice(C, pend.p, pend.data)
              /\ handle'.size = Max(Len(C), pend.p + Len(pend.data)) ]_vars

\* An overwrite inside a three-chunk object was flushed: it started after
\* the first byte and ended before the last.
C2_Witness ==
    /\ last.op = "flush"
    /\ last.status = "ok"
    /\ last.pre_pending
    /\ last.pre_chunks >= 3
    /\ last.pre_pos < last.pre_size
    /\ last.pre_pos >= 2
    /\ handle.size = last.pre_size

----------------------------------------------------------------------------
(* Size and truncation.                                                    *)

\* C3: in every reachable state the size recorded in the handle is the sum of
\* the sizes of its chunks.
C3_SizeIsSumOfChunks == handle.size = SumSizes(handle.chunks)

\* A truncation at a chunk boundary has acted on an object of several chunks:
\* its last chunk is the empty slice truncate stores.
C3_Witness ==
    /\ Len(handle.chunks) >= 2
    /\ handle.size >= 2
    /\ handle.chunks[Len(handle.chunks)].size = 0

\* C4: on a flushed object with content C, a successful truncate(n) leaves the
\* size min(|C|, n) and the content C[0..min(|C|, n)], also as read back from
\* offset 0 with any buffer length.
C4_Truncate ==
    [][ ( /\ last'.op = "truncate"
          /\ last'.status = "ok"
          /\ ~object_state.needs_flushed )
        => LET C == Content(handle, store)
               kept == Take(C, Min(Len(C), last'.n))
           IN /\ handle'.size = Min(Len(C), last'.n)
              /\ Content(handle', store') = kept
              /\ \A size \in 1 .. MaxBuf :
                     ReadAll(handle', object_state', store', size) = kept ]_vars

\* A flushed object of several chunks was cut inside its last chunk.
C4_Witness ==
    /\ last.op = "truncate"
    /\ last.status = "ok"
    /\ ~last.pre_pending
    /\ last.n > 0
    /\ last.n < last.pre_size
    /\ Len(handle.chunks) = last.pre_chunks
    /\ last.pre_chunks >= 2

----------------------------------------------------------------------------
(* Seeking.                                                                *)

\* C8: on an object of size s with no pending writes, seek(Start(o)) sets and
\* returns position min(s, o); seek(Current(d)) from position p returns
\* InvalidInput when p+d < 0 and otherwise sets and returns min(s, p+d); the
\* reported position equals the stored position and lies in [0, s].
C8_SeekBounds ==
    ( last.op = "seek" /\ ~last.pre_pending )
    => LET s == last.pre_size
           p == last.pre_pos
       IN /\ last.kind = "Start"
               => /\ last.status = "ok"
                  /\ last.ret = Min(s, last.n)
          /\ last.kind = "Current"
               => IF p + last.n < 0
                  THEN last.status = "InvalidInput"
                  ELSE /\ last.status = "ok"
                       /\ last.ret = Min(s, p + last.n)
          /\ last.status = "ok"
               => /\ last.ret = object_state.position
                  /\ object_state.position >= 0
                  /\ object_state.position <= s

\* C9: seek(End(offset)) with a positive offset gives position size - offset
\* when offset <= size and InvalidInput when offset > size, in impl Seek for
\* Object of repo/common (which flushes first, so size is the flushed size) and
\* in impl Seek for Object of repo/object (which seeks on the recorded size).
C9_SeekFromEnd ==
    [][ ( /\ last'.op = "seek"
          /\ last'.kind = "End"
          /\ last'.n > 0 )
        => LET offset == last'.n
               size == handle'.size
               old == Object_seek_discarding(handle, object_state, store,
                                             [ kind |-> "End", offset |-> offset ], FALSE)
           IN /\ IF offset <= size
                 THEN /\ last'.status = "ok"
                      /\ last'.ret = size - offset
                      /\ object_state'.position = size - offset
                 ELSE /\ last'.status = "InvalidInput"
                      /\ object_state'.position = object_state.position
              /\ IF offset <= handle.size
                 THEN /\ old.status = "ok"
                      /\ old.ret = handle.size - offset
                      /\ old.os.position = handle.size - offset
                 ELSE /\ old.status = "InvalidInput"
                      /\ old.os.position = object_state.position ]_vars

\* An End seek landed strictly inside an object of several chunks.
C9_Witness ==
    /\ last.op = "seek"
    /\ last.kind = "End"
    /\ last.status = "ok"
    /\ last.n > 0
    /\ last.n < handle.size
    /\ object_state.position = handle.size - last.n
    /\ Len(handle.chunks) >= 2

\* C10: a seek or a truncate called over unflushed writes of B at offset p
\* applies them first: afterwards nothing is pending and B stands at offset p
\* of the object, up to the length the truncate cut it to.
C10_FlushFirst ==
    [][ ( /\ last'.op \in { "seek", "truncate" }
          /\ last'.status # "panic"
          /\ pend.active )
        => LET after == Content(handle', store')
               end == IF last'.op = "truncate"
                      THEN Min(pend.p + Len(pend.data), last'.n)
                      ELSE pend.p + Len(pend.data)
           IN /\ ~object_state'.needs_flushed
              /\ end > pend.p
                   => /\ Len(after) >= end
                      /\ Slice(after, pend.p, end) = Take(pend.data, end - pend.p) ]_vars

----------------------------------------------------------------------------
(* Commit, rollback, clean.                                                *)

\* The repository was killed inside commit and has been opened again.
Recovered ==
    /\ session.pc # "closed"
    /\ history.after = "open"
    /\ history.killed \in { "snapshot", "written", "swapped" }

\* C5: a repository that was killed at any point of commit -- before the new
\* header blob is written, before the pointer is overwritten, or after -- opens,
\* and its objects read as they did before the commit (kill before the pointer
\* swap) or as the commit's snapshot (kill after it), never as anything else.
C5_CrashSafety ==
    Recovered
    => /\ View(header, backend) \in { history.pre, history.post }
       /\ history.killed \in { "snapshot", "written" } => View(header, backend) = history.pre
       /\ history.killed = "swapped" => View(header, backend) = history.post

\* A commit of changed objects was killed right after its header blob was
\* written, and the repository was opened again.
C5_Witness ==
    /\ Recovered
    /\ history.killed = "written"
    /\ history.pre # history.post
    /\ history.pre["k"] # None
    /\ history.post["k"] # None

\* C6: after rollback, and after the repository is opened again, every object
\* reads exactly as it did at the last commit, whatever was inserted, removed,
\* written or truncated since, and whatever clean deleted; it keeps doing so
\* until the next modification.
C6_Rollback ==
    ( session.pc # "closed" /\ history.after \in { "rollback", "open" } )
    => View(header, backend) = history.durable

\* A rollback discarded modifications of a committed, non-empty object.
C6_Witness ==
    /\ history.after = "rollback"
    /\ history.discarded
    /\ IsSome(history.durable["k"])
    /\ Len(Unwrap(history.durable["k"])) > 0

\* Every chunk a header references is in its chunkmap, with its blob in the store.
NoDangling(hd, be) ==
    \A name \in Names :
        IsSome(hd.objects[name])
        => \A i \in 1 .. Len(Unwrap(hd.objects[name]).chunks) :
              LET h == Unwrap(hd.objects[name]).chunks[i].hash
              IN /\ h \in DOMAIN hd.chunkmap
                 /\ hd.refcounts[h] >= 1
                 /\ hd.chunkmap[h] \in DOMAIN be.chunks
                 /\ chunk_hash(be.chunks[hd.chunkmap[h]]) = h

----------------------------------------------------------------------------
(* Reading.                                                                *)

\* The end offset of the chunk that holds offset p: the smallest boundary
\* between chunks that lies after p; p itself when no chunk holds it.
EndOfChunkAt(chunks, p) ==
    LET ends == { SumSizes(Take(chunks, i)) : i \in 0 .. Len(chunks) }
        after == { e \in ends : e > p }
    IN IF after = { } THEN p
       ELSE CHOOSE e \in after : \A other \in after : e <= other

\* C11: a read into a buffer of length L at position p returns k = min(L, e - p)
\* bytes, e being the end offset of the chunk that holds p; the bytes are
\* C[p .. p + k) of the content C, the position advances by k, and the read
\* returns 0 bytes only when L = 0 or p = size.
C11_PartialRead ==
    [][ (last'.op = "read" /\ last'.status = "ok") =>
          LET C == Content(handle', store')
              p == object_state.position
              L == last'.n
              k == last'.ret
              e == EndOfChunkAt(handle'.chunks, p)
          IN /\ k = Min(L, e - p)
             /\ last'.data = Slice(C, p, p + k)
             /\ object_state'.position = p + k
             /\ k = 0 => (L = 0 \/ p = handle'.size) ]_vars

\* The same, for the reads that start inside the object or at its end.
C11_ReadInsideObject ==
    [][ (last'.op = "read" /\ last'.status = "ok"
           /\ object_state.position <= handle'.size) =>
          LET C == Content(handle', store')
              p == object_state.position
              L == last'.n
              k == last'.ret
              e == EndOfChunkAt(handle'.chunks, p)
          IN /\ k = Min(L, e - p)
             /\ last'.data = Slice(C, p, p + k)
             /\ object_state'.position = p + k
             /\ k = 0 => (L = 0 \/ p = handle'.size) ]_vars

----------------------------------------------------------------------------
(* Content identifiers.                                                    *)

\* C12: two objects of the same repository that hold the same bytes have equal
\* ContentIds, whatever writes, flushes, seeks and truncations they were reached
\* by: the object of the state machine has the ContentId of a second object
\* that was written the same bytes in one write.
C12_ContentIdSound ==
    content_id(handle) = content_id(WrittenAfresh(Content(handle, store), store))

\* The payload a digest stands for: the inverse of the digest.
RECURSIVE HashedBytes(_)
HashedBytes(hash) ==
    IF hash <= 1 THEN << >>
    ELSE Append(HashedBytes(hash \div NumBytes), hash % NumBytes)

\* The bytes a ContentId stands for, computed from the ContentId alone.
RECURSIVE IdContent(_)
IdContent(chunks) ==
    IF Len(chunks) = 0 THEN << >>
    ELSE HashedBytes(Head(chunks).hash) \o IdContent(Tail(chunks))

\* C13: two objects of the same repository with equal ContentIds hold the same
\* bytes: the content of an object is the one its ContentId stands for, of the
\* size the ContentId records, and a second object that was written the bytes B
\* has the ContentId of this object only when B is this object's content.
C13_ContentIdComplete ==
    /\ Content(handle, store) = IdContent(content_id(handle).chunks)
    /\ Len(Content(handle, store)) = content_id(handle).size
    /\ \A B \in SeqsUpTo(MaxLen) :
          content_id(WrittenAfresh(B, store)) = content_id(handle)
              => B = Content(handle, store)

\* Two objects with equal ContentIds, of two unlike chunks, the store holding
\* more chunks than the two.
C13_Witness ==
    /\ Len(handle.chunks) = 2
    /\ handle.chunks[1] # handle.chunks[2]
    /\ handle.chunks[1].size = handle.chunks[2].size
    /\ Cardinality(DOMAIN store) > 2
    /\ content_id(WrittenAfresh(Content(handle, store), store)) = content_id(handle)

\* The sources an object is compared with.
Sources == SeqsUpTo(MaxLen + 1)

\* C14: compare_contents returns true exactly when the bytes of the source are
\* the content of the object, for objects of every size, 0 included: a source
\* that ends early and a source with extra bytes both give false.
C14_CompareContents ==
    \A other \in Sources :
        compare_contents(content_id(handle), other) = (other = Content(handle, store))

\* The same, for the objects that hold at least one byte.
C14_CompareNonEmpty ==
    handle.size > 0 => C14_CompareContents

----------------------------------------------------------------------------
(* Integrity.                                                              *)

C16_CorruptRead ==
    [][ (/\ last'.op = "read"
         /\ IsSome(last'.env.reads)
         /\ Unwrap(last'.env.reads).kind = "InvalidData"
         /\ IsSome(current_chunk(handle', object_state))
         /\ Unwrap(current_chunk(handle', object_state)).chunk.hash
                = Unwrap(last'.env.reads).hash) =>
          \/ last'.status = "InvalidData"
          \/ /\ last'.status = "ok"
             /\ last'.data = Slice(Content(handle', store'), object_state.position,
                                   object_state.position + last'.ret) ]_vars

\* C17: a flush that fails, because the chunk under the position cannot be read
\* or because a write_chunk fails, leaves handle.chunks and handle.size exactly
\* as they were.
C17_FailedFlush ==
    [][ (last'.op = "flush" /\ last'.status \in ReadErrors) => handle' = handle ]_vars

\* A flush of a write into a non-empty object has failed after it had stored
\* a chunk.
C17_Witness ==
    /\ last.op = "flush"
    /\ last.status = "Store"
    /\ last.env.writes = Some(1)
    /\ Len(object_state.new_chunks) >= 1
    /\ object_state.needs_flushed
    /\ handle.size > 0

\* C18: dropping the Object attempts a flush. When the flush succeeds the handle
\* holds exactly the written data, the bytes B written since the last flush
\* lying at their offset p over the content there was; when it fails the
\* handle is exactly as it was before the pending writes. After every history,
\* also one with an earlier flush that failed, the handle after the drop is in
\* one of these two states.
C18_Drop ==
    [][ (last'.op = "reopen" /\ last'.status = "ok") =>
          LET C == Content(handle, store)
              written == IF pend.active THEN Splice(C, pend.p, pend.data) ELSE C
          IN \/ handle' = handle
             \/ /\ pend.active => pend.p <= Len(C)
                /\ Content(handle', store') = written
                /\ handle'.size = Len(written) ]_vars

----------------------------------------------------------------------------
(* Serialization.                                                          *)

\* C19: after serialize(v) has returned Ok on an Object in whatever state, with
\* or without pending writes, the content of the object is exactly the encoding
\* of v, its size is the length of the encoding, and deserialize returns v.
C19_SerializeRoundTrip ==
    [][ (last'.op = "serialize" /\ last'.status = "ok") =>
          LET v == last'.n
              d == Object_deserialize(handle', object_state', store')
          IN /\ Content(handle', store') = to_vec(v)
             /\ handle'.size = Len(to_vec(v))
             /\ d.status = "ok"
             /\ d.ret = v ]_vars

\* The same, for an Object without pending writes.
C19_SerializeFlushed ==
    [][ (last'.op = "serialize" /\ last'.status = "ok" /\ ~object_state.needs_flushed) =>
          LET v == last'.n
              d == Object_deserialize(handle', object_state', store')
          IN /\ Content(handle', store') = to_vec(v)
             /\ handle'.size = Len(to_vec(v))
             /\ d.status = "ok"
             /\ d.ret = v ]_vars

----------------------------------------------------------------------------
(* The seek position.                                                      *)

\* C20: in every state with nothing to flush the position is at most the size
\* of the object, after any sequence of seeks, reads, writes followed by a
\* flush, and truncations.
C20_PositionBound ==
    ~object_state.needs_flushed => object_state.position <= handle.size

\* The same as a step: a handler that finds the position within the object and
\* that is not the flush of a write at the end of a non-empty object leaves
\* the position within the object.
C20_BoundButForAppend ==
    [][ (/\ ~object_state'.needs_flushed
         /\ object_state.position - (IF pend.active THEN Len(pend.data) ELSE 0) <= handle.size
         /\ ~(pend.active /\ handle.size > 0 /\ pend.p >= handle.size))
          => object_state'.position <= handle'.size ]_vars


\* C21: after a successful truncate(n) the position is the smaller of the
\* position before the call and n.
C21_TruncatePosition ==
    [][ ( /\ last'.op = "truncate"
          /\ last'.status = "ok" )
        => object_state'.position = Min(object_state.position, last'.n) ]_vars

\* The same, for a call that starts with the position inside the object or at
\* its end and nothing pending.
C21_PositionInsideObject ==
    [][ ( /\ last'.op = "truncate"
          /\ last'.status = "ok"
          /\ ~object_state.needs_flushed
          /\ object_state.position <= handle.size )
        => object_state'.position = Min(object_state.position, last'.n) ]_vars


\* C22: a flush with nothing pending returns Ok and changes neither the chunks
\* and the size of the handle, nor the object state (the position included),
\* nor the store; a flush right after a successful flush is such a flush, so
\* two flushes in a row leave what one flush leaves.
C22_FlushNoop ==
    [][ /\ ( /\ last'.op = "flush"
             /\ ~object_state.needs_flushed )
           => /\ last'.status = "ok"
              /\ handle' = handle
              /\ object_state' = object_state
              /\ store' = store
        /\ ( /\ last'.op = "flush"
             /\ last'.status = "ok" )
           => LET again == Object_flush(handle', object_state', store')
              IN /\ again.status = "ok"
                 /\ again.handle = handle'
                 /\ again.os = object_state'
                 /\ again.store = store' ]_vars

\* A flush with nothing pending has returned, on an object of several chunks
\* with the position inside its first chunk.
C22_Witness ==
    /\ last.op = "flush"
    /\ last.status = "ok"
    /\ ~last.pre_pending
    /\ Len(handle.chunks) >= 2
    /\ object_state.position < handle.chunks[1].size


\* C23: a write returns the length of its buffer and leaves the chunks and the
\* size of the handle, and so its content id, as they were; of the object
\* state it leaves the read cache alone, moves the position by the length of
\* the buffer and marks the object as needing a flush.
C23_WriteInvisible ==
    [][ last'.op = "write"
        => /\ last'.status = "ok"
           /\ last'.ret = last'.n
           /\ handle'.chunks = handle.chunks
           /\ handle'.size = handle.size
           /\ content_id(handle') = content_id(handle)
           /\ object_state'.buffered_chunk = object_state.buffered_chunk
           /\ object_state'.read_buffer = object_state.read_buffer
           /\ object_state'.position = object_state.position + last'.n
           /\ object_state'.needs_flushed ]_vars

\* A write has gone past the end of a flushed object and has stored a chunk of
\* its own, and the handle still has the old size.
C23_Witness ==
    /\ last.op = "write"
    /\ last.status = "ok"
    /\ ~last.pre_pending
    /\ last.pre_size > 0
    /\ object_state.position > handle.size
    /\ handle.size = last.pre_size
    /\ Len(object_state.new_chunks) > 0


C26_Append ==
    [][ ( /\ last'.op = "flush"
          /\ last'.status = "ok"
          /\ pend.active
          /\ handle.size > 0
          /\ pend.p = handle.size )
        => LET C == Content(handle, store)
           IN /\ Content(handle', store') = C \o pend.data
              /\ handle'.size = Len(C) + Len(pend.data) ]_vars


\* C27: in every state, when buffered_chunk names a chunk, read_buffer holds
\* the payload of that chunk.
C27_CacheCoherent ==
    IsSome(object_state.buffered_chunk)
    => /\ Unwrap(object_state.buffered_chunk).hash \in DOMAIN store
       /\ object_state.read_buffer = read_chunk(store, Unwrap(object_state.buffered_chunk))

\* C28: when a write on a flushed object fails, and the next write, at the same
\* position p, succeeds with the bytes B and is followed by flush(), the
\* content is the one the successful write alone leaves: the flushed content C
\* with B written over it at p (for p inside the object, or an empty object).
C28_FailedWrite ==
    [][ ( /\ last'.op = "flush"
          /\ last'.status = "ok"
          /\ pend.active
          /\ pend.retry = "retried"
          /\ (pend.p < handle.size \/ handle.size = 0) )
        => LET C == Content(handle, store)
           IN /\ Content(handle', store') = Splice(C, pend.p, pend.data)
              /\ handle'.size = Max(Len(C), pend.p + Len(pend.data)) ]_vars


\* The object after write(B1); write(B2); flush() from the present state.
WrittenInTwo(B1, B2) ==
    LET a == Object_write(handle, object_state, store, B1)
        b == Object_write(a.handle, a.os, a.store, B2)
    IN Object_flush(b.handle, b.os, b.store)

\* The object after write(B); flush() from the present state.
WrittenInOne(B) ==
    LET a == Object_write(handle, object_state, store, B)
    IN Object_flush(a.handle, a.os, a.store)

\* C29: from any state, write(B1); write(B2); flush() leaves the same content,
\* the same chunk list, the same size and the same position as
\* write(B1 || B2); flush().
C29_WritesCompose ==
    \A B1 \in SeqsUpTo(MaxBuf) : \A B2 \in SeqsUpTo(MaxBuf) :
        object_state.position + Len(B1) + Len(B2) <= MaxLen
        => LET two == WrittenInTwo(B1, B2)
               one == WrittenInOne(B1 \o B2)
           IN /\ two.status = one.status
              /\ two.handle.chunks = one.handle.chunks
              /\ two.handle.size = one.handle.size
              /\ two.os.position = one.os.position
              /\ two.store = one.store
              /\ two.status = "ok"
                 => Content(two.handle, two.store) = Content(one.handle, one.store)

\* On a flushed object of several chunks with the position inside the object
\* and after its start, a first write that leaves bytes in the chunker and a
\* second write that completes the chunk give an object of several chunks.
C29_Witness ==
    /\ ~object_state.needs_flushed
    /\ Len(handle.chunks) >= 2
    /\ IsSome(current_chunk(handle, object_state))
    /\ object_state.position > 0
    /\ \E B1 \in SeqsUpTo(MaxBuf) : \E B2 \in SeqsUpTo(MaxBuf) :
           /\ object_state.position + Len(B1) + Len(B2) <= MaxLen
           /\ Len(B1) > 0
           /\ Len(B2) > 0
           /\ Len(Object_write(handle, object_state, store, B1).os.chunker) > 0
           /\ WrittenInTwo(B1, B2).status = "ok"
           /\ Len(WrittenInTwo(B1, B2).handle.chunks) >= 2
           /\ Content(WrittenInTwo(B1, B2).handle, WrittenInTwo(B1, B2).store)
                  # Content(handle, store)


\* C30: a truncate that returns an error leaves handle.chunks, handle.size and
\* the position as they were before the call.
C30_FailedTruncate ==
    [][ ( /\ last'.op = "truncate"
          /\ last'.status \in ReadErrors )
        => /\ handle'.chunks = handle.chunks
           /\ handle'.size = handle.size
           /\ object_state'.position = object_state.position ]_vars

\* The same, of the handle alone, for a truncate that starts with nothing
\* pending.
C30_FailedTruncateHandle ==
    [][ ( /\ last'.op = "truncate"
          /\ last'.status \in ReadErrors
          /\ ~object_state.needs_flushed )
        => handle' = handle ]_vars


----------------------------------------------------------------------------
(* Deserializing while writes are pending.                                 *)

\* C31: on an Object with content C and unflushed writes of B that started at
\* p (inside the object, or in an empty object), deserialize reads the object
\* as it is once B is flushed, leaves the position where the writes left it,
\* and a flush after it leaves C with B written over it at p.
C31_DeserializePending ==
    [][ ( /\ last'.op = "deserialize"
          /\ pend.active
          /\ (pend.p < handle.size \/ handle.size = 0) )
        => LET C == Content(handle, store)
               flushed == Splice(C, pend.p, pend.data)
               f == Object_flush(handle', object_state', store')
           IN /\ Len(flushed) > 0 => (last'.status = "ok" /\ last'.ret = flushed[1])
              /\ Len(flushed) = 0 => last'.status = "Deserialize"
              /\ object_state'.position = object_state.position
              /\ f.status = "ok"
              /\ Content(f.handle, f.store) = flushed ]_vars

\* The same, of the value alone, for an Object with nothing pending.
C31_DeserializeFlushed ==
    [][ ( /\ last'.op = "deserialize"
          /\ ~object_state.needs_flushed )
        => LET C == Content(handle, store)
           IN /\ Len(C) > 0 => (last'.status = "ok" /\ last'.ret = C[1])
              /\ Len(C) = 0 => last'.status = "Deserialize"
              /\ Content(handle', store') = C ]_vars


----------------------------------------------------------------------------
(* The chunks of the handle.                                               *)

\* C32: in every state, every chunk of the handle has at least one byte; so an
\* object of size 0 has no chunks.
C32_NoEmptyChunks ==
    /\ \A i \in 1 .. Len(handle.chunks) : handle.chunks[i].size >= 1
    /\ handle.size = 0 => handle.chunks = << >>

\* The same, as long as no truncate has cut the object.
C32_NoEmptyChunksWritten ==
    [][ last'.op # "truncate"
        => ( (\A i \in 1 .. Len(handle.chunks) : handle.chunks[i].size >= 1)
             => (\A i \in 1 .. Len(handle'.chunks) : handle'.chunks[i].size >= 1) ) ]_vars

-----------------------------------------------------------------------------
\* ---- The FUSE adapter as a state machine: one file, its file handles ----

\* What a FUSE handler leaves in `last`: its arguments and its reply.
Replied(watched, op, kind, n, status, ret, data) ==
    IF ~watched THEN Idle
    ELSE [ Idle EXCEPT !.op = op, !.kind = kind, !.n = n, !.status = status,
                       !.ret = ret, !.data = data ]

\* The bytes of the file as the next reader sees them: the pending writes of
\* the inode's object are committed before any read.
FileContent(h, os, st) ==
    LET f == ObjectTable_open_commit(h, os, st)
    IN Content(f.handle, f.store)

\* The length a file reaches through the adapter.
FileLen == 2

\* The outcome of a FUSE handler stays within the bounds of the model.
FuseBounded(o) ==
    /\ o.handle.size <= FileLen
    /\ SumSizes(o.os.new_chunks) + Len(o.os.chunker) <= FileLen
    /\ o.os.position <= FileLen

FuseOpen(flagset) ==
    /\ alive
    /\ \E fh \in Fhs :
       \E flags \in flagset :
           /\ ~IsSome(fuse.handles[fh])
           /\ fuse' = [ fuse EXCEPT !.handles[fh] = Some(FileHandle(flags)) ]
           /\ last' = Idle
           /\ UNCHANGED <<handle, object_state, store, alive, pend,
                          header, backend, session, history>>

FuseWrite(watched, fails, datas) ==
    /\ alive
    /\ \E fh \in Fhs :
       \E offset \in 0 .. FileLen :
       \E data \in datas :
       \E fail \in fails :
           /\ IsSome(fuse.handles[fh])
           /\ offset + Len(data) <= FileLen
           /\ \E r \in { FuseAdapter_write(Unwrap(fuse.handles[fh]), handle, object_state,
                                           store, offset, data, fail) } :
                 /\ FuseBounded(r.o)
                 /\ ApplyObject(r.o)
                 /\ fuse' = [ fuse EXCEPT !.handles[fh] = Some(r.state) ]
                 /\ last' = Replied(watched, "fuse_write", Unwrap(fuse.handles[fh]).flags,
                                    offset, r.o.status, r.o.ret, data)
                 /\ UNCHANGED pend

FuseRead(watched, fails, sizes) ==
    /\ alive
    /\ \E fh \in Fhs :
       \E offset \in 0 .. (FileLen + 1) :
       \E size \in sizes :
       \E fail \in fails :
           /\ IsSome(fuse.handles[fh])
           /\ \E r \in { FuseAdapter_read(Unwrap(fuse.handles[fh]), handle, object_state,
                                          store, offset, size, fail) } :
                 /\ FuseBounded(r.o)
                 /\ ApplyObject([ r.o EXCEPT !.ret = 0 ])
                 /\ fuse' = [ fuse EXCEPT !.handles[fh] = Some(r.state) ]
                 /\ last' = Replied(watched, "fuse_read", "", offset, r.o.status,
                                    [ size |-> size, steps |-> r.o.ret.steps,
                                      position |-> r.state.position ],
                                    r.o.ret.data)
                 /\ UNCHANGED pend

FuseSetattr(watched, fails, sizes) ==
    /\ alive
    /\ \E size \in sizes :
       \E fail \in fails :
       \E o \in { FuseAdapter_setattr(handle, object_state, store, size, fail) } :
           /\ FuseBounded(o)
           /\ ApplyObject(o)
           /\ last' = Replied(watched, "fuse_setattr", "", size, o.status, 0, << >>)
           /\ UNCHANGED <<fuse, pend>>

FuseFlush ==
    /\ alive
    /\ \E o \in { FuseAdapter_flush(handle, object_state, store) } :
           /\ FuseBounded(o)
           /\ ApplyObject(o)
           /\ last' = Idle
           /\ UNCHANGED <<fuse, pend>>

FuseRelease ==
    /\ alive
    /\ \E fh \in Fhs :
       \E o \in { FuseAdapter_release(handle, object_state, store) } :
           /\ IsSome(fuse.handles[fh])
           /\ FuseBounded(o)
           /\ ApplyObject(o)
           /\ fuse' = [ fuse EXCEPT !.handles[fh] = None ]
           /\ last' = Idle
           /\ UNCHANGED pend

\* Several file handles on the inode: writes are watched.
NextFuseWrite ==
    \/ FuseOpen({ "" })
    \/ FuseWrite(TRUE, { "none" }, { <<0>>, <<1>> })
    \/ FuseRead(FALSE, { "none" }, { 1 })
    \/ FuseSetattr(FALSE, { "none" }, { 0 })
    \/ FuseRelease

SpecFuseWrite == Init /\ [][NextFuseWrite]_vars

\* C33: a successful write through a file handle without O_APPEND, at an
\* offset inside the file or at its end, leaves the data at that offset: the
\* bytes of the file from offset on start with the data written, whatever
\* the other handles on the inode did before.
C33_WriteAtOffset ==
    [][ ( /\ last'.op = "fuse_write"
          /\ last'.status = "ok"
          /\ last'.kind # "O_APPEND"
          /\ last'.n <= Len(FileContent(handle, object_state, store)) )
        => LET after == FileContent(handle', object_state', store')
           IN /\ last'.n + Len(last'.data) <= Len(after)
              /\ Slice(after, last'.n, last'.n + Len(last'.data)) = last'.data ]_vars

\* C33: the same for a write that stays inside the file, where nothing is
\* appended.
C33_WriteInsideFile ==
    [][ ( /\ last'.op = "fuse_write"
          /\ last'.status = "ok"
          /\ last'.kind # "O_APPEND"
          /\ Len(last'.data) >= 1
          /\ last'.n + Len(last'.data) <= Len(FileContent(handle, object_state, store)) )
        => LET after == FileContent(handle', object_state', store')
           IN /\ last'.n + Len(last'.data) <= Len(after)
              /\ Slice(after, last'.n, last'.n + Len(last'.data)) = last'.data ]_vars

\* ---- Reading through a file handle ----

\* Reads are watched; the file is written, truncated and closed in between.
NextFuseRead ==
    \/ FuseOpen({ "" })
    \/ FuseWrite(FALSE, { "none" }, { <<0>>, <<1>> })
    \/ FuseRead(TRUE, { "none" }, 1 .. (FileLen + 1))
    \/ FuseSetattr(FALSE, { "none" }, { 1 })
    \/ FuseFlush
    \/ FuseRelease

SpecFuseRead == Init /\ [][NextFuseRead]_vars

\* The range a read of `size` bytes at `offset` is to return from content C.
ExactRange(C, offset, size) ==
    Slice(C, Min(offset, Len(C)), Min(offset + size, Len(C)))

\* C38: a read that replies data replies exactly the bytes of the file from
\* offset on, size of them or as many as the file has; its loop has made at
\* most one read per byte and one more; the position of the handle is the
\* offset plus the number of bytes replied.
C38_ReadExactRange ==
    [][ ( /\ last'.op = "fuse_read"
          /\ last'.status = "ok" )
        => /\ last'.data = ExactRange(FileContent(handle, object_state, store),
                                      last'.n, last'.ret.size)
           /\ last'.ret.steps <= last'.ret.size + 1
           /\ last'.ret.position = last'.n + Len(last'.data) ]_vars

\* C38: a read of a whole file of FileLen bytes has been replied to, and its
\* loop took the bytes from more than one chunk.
C38_Witness ==
    /\ last.op = "fuse_read"
    /\ last.status = "ok"
    /\ handle.size = FileLen
    /\ last.n = 0
    /\ Len(last.data) = FileLen
    /\ last.ret.steps >= 3

\* ---- Converting time stamps ----

\* How far from a whole second the times of the model lie, in nanoseconds.
TimeEdge == 9

\* The seconds around the epoch the times of the model start from.
TimeSecs == (0 - 2) .. 1

\* Whole-nanosecond times around the epoch: just after and just before every
\* whole second of TimeSecs.
Times ==
    { sec * NanosPerSec + nsec :
        sec \in TimeSecs,
        nsec \in (0 .. TimeEdge) \cup ((NanosPerSec - 1 - TimeEdge) .. (NanosPerSec - 1)) }

\* A time that is to be converted to a Timespec and back.
Converting(t) == [ t |-> t, timespec |-> None, back |-> None ]

InitTime ==
    /\ handle = EmptyHandle
    /\ object_state = NewObjectState
    /\ store = << >>
    /\ alive = TRUE
    /\ pend = NoPend
    /\ last = Idle
    /\ header = EmptyHeader
    /\ backend = CreatedBackend
    /\ session = IdleSession
    /\ history = NoHistory
    /\ \E t \in Times : fuse = [ NewFuseAdapter EXCEPT !.time = Some(Converting(t)) ]

\* entry_attr: the times of an entry are handed to the kernel as Timespecs.
ToTimespec ==
    /\ IsSome(fuse.time)
    /\ ~IsSome(Unwrap(fuse.time).timespec)
    /\ fuse' = [ fuse EXCEPT !.time =
                   Some([ Unwrap(fuse.time) EXCEPT
                            !.timespec = Some(to_timespec(Unwrap(fuse.time).t)) ]) ]
    /\ UNCHANGED <<handle, object_state, store, alive, pend, last,
                   header, backend, session, history>>

\* setattr: the Timespecs of the kernel become the times of the entry.
ToSystemTime ==
    /\ IsSome(fuse.time)
    /\ IsSome(Unwrap(fuse.time).timespec)
    /\ ~IsSome(Unwrap(fuse.time).back)
    /\ fuse' = [ fuse EXCEPT !.time =
                   Some([ Unwrap(fuse.time) EXCEPT
                            !.back = Some(to_system_time(
                                             Unwrap(Unwrap(fuse.time).timespec))) ]) ]
    /\ UNCHANGED <<handle, object_state, store, alive, pend, last,
                   header, backend, session, history>>

NextTime ==
    \/ ToTimespec
    \/ ToSystemTime

SpecTime == InitTime /\ [][NextTime]_vars

\* C39: a time that was converted to a Timespec and back is the time it was.
C39_RoundTrip ==
    ( /\ IsSome(fuse.time)
      /\ IsSome(Unwrap(fuse.time).back) )
    => Unwrap(Unwrap(fuse.time).back) = Unwrap(fuse.time).t

\* C39: the same for the times that are not in the first second after the
\* epoch: before the epoch, the epoch itself, a second or more after it.
C39_RoundTripOutsideFirstSecond ==
    ( /\ IsSome(fuse.time)
      /\ IsSome(Unwrap(fuse.time).back)
      /\ ( Unwrap(fuse.time).t <= 0 \/ Unwrap(fuse.time).t >= NanosPerSec ) )
    => Unwrap(Unwrap(fuse.time).back) = Unwrap(fuse.time).t

\* ---- Listing a directory ----

\* The entries a directory has at most, and the entries a reply holds at most.
MaxEntries == 6
MaxCapacity == 5

\* readdir: the entries from `offset` on are added to the reply until
\* reply.add says the buffer is full; each is added with the offset i + 1,
\* i counting from the start of the slice.
readdir(entries, offset, capacity) ==
    [ i \in 1 .. Min(capacity, Len(entries) - offset) |->
        [ entry |-> entries[offset + i], offset |-> i ] ]

\* Once more than before, as far as it matters: never, once, more than once.
OnceMore(times) == Min(times + 1, 2)

\* opendir: the directory handle captures the entries of the directory. The
\* kernel has received nothing and starts at offset 0; its replies hold
\* `capacity` entries.
DirectoryHandle(entries, capacity) ==
    [ entries |-> entries, capacity |-> capacity, offset |-> 0,
      times |-> [ e \in 1 .. Len(entries) |-> 0 ], done |-> FALSE ]

\* What the kernel has after a reply: an empty reply ends the listing, any
\* other is received and the next call is made with the offset of its last
\* entry.
Received(listing, reply) ==
    IF Len(reply) = 0 THEN [ listing EXCEPT !.done = TRUE ]
    ELSE [ listing EXCEPT
             !.offset = reply[Len(reply)].offset,
             !.times = [ e \in DOMAIN listing.times |->
                           IF \E i \in 1 .. Len(reply) : reply[i].entry = e
                           THEN OnceMore(listing.times[e]) ELSE listing.times[e] ] ]

Opendir ==
    /\ alive
    /\ ~IsSome(fuse.listing)
    /\ \E n \in 0 .. MaxEntries :
       \E capacity \in 1 .. MaxCapacity :
           fuse' = [ fuse EXCEPT !.listing =
                       Some(DirectoryHandle([ e \in 1 .. n |-> e ], capacity)) ]
    /\ UNCHANGED <<handle, object_state, store, alive, pend, last,
                   header, backend, session, history>>

Readdir ==
    /\ alive
    /\ IsSome(fuse.listing)
    /\ ~Unwrap(fuse.listing).done
    /\ LET listing == Unwrap(fuse.listing)
       IN IF listing.offset > Len(listing.entries)
          THEN /\ alive' = FALSE
               /\ UNCHANGED fuse
          ELSE /\ alive' = alive
               /\ fuse' = [ fuse EXCEPT !.listing =
                              Some(Received(listing,
                                            readdir(listing.entries, listing.offset,
                                                    listing.capacity))) ]
    /\ UNCHANGED <<handle, object_state, store, pend, last,
                   header, backend, session, history>>

Releasedir ==
    /\ alive
    /\ IsSome(fuse.listing)
    /\ fuse' = [ fuse EXCEPT !.listing = None ]
    /\ UNCHANGED <<handle, object_state, store, alive, pend, last,
                   header, backend, session, history>>

NextReaddir ==
    \/ Opendir
    \/ Readdir
    \/ Releasedir

SpecReaddir == Init /\ [][NextReaddir]_vars

\* The kernel goes on calling readdir until the listing has ended, and the
\* handle is not released before.
NextReaddirToEnd ==
    \/ Opendir
    \/ Readdir
    \/ ( Releasedir /\ Unwrap(fuse.listing).done )

SpecReaddirFair ==
    Init /\ [][NextReaddirToEnd]_vars /\ WF_vars(Readdir)

\* C36: no entry of a listing is received more than once, and when the
\* listing has ended every entry captured at opendir was received once.
C36_EveryEntryOnce ==
    IsSome(fuse.listing) =>
        LET listing == Unwrap(fuse.listing)
        IN /\ \A e \in DOMAIN listing.times : listing.times[e] <= 1
           /\ listing.done => \A e \in DOMAIN listing.times : listing.times[e] = 1

\* C36: a listing that was opened ends.
C36_Terminates ==
    ( IsSome(fuse.listing) /\ ~Unwrap(fuse.listing).done )
        ~> ( IsSome(fuse.listing) /\ Unwrap(fuse.listing).done )

\* C36: the same for the directories whose entries all fit into one reply.
C36_EveryEntryOnceInOneReply ==
    ( /\ IsSome(fuse.listing)
      /\ Len(Unwrap(fuse.listing).entries) <= Unwrap(fuse.listing).capacity )
    => LET listing == Unwrap(fuse.listing)
       IN /\ \A e \in DOMAIN listing.times : listing.times[e] <= 1
          /\ listing.done => \A e \in DOMAIN listing.times : listing.times[e] = 1

\* ---- The tree of entries and the inode table ----

\* The parents a handler is called with: the mount root and the one path
\* below it that has children in the model.
Parents == { Root, << "a" >> }

\* The permission bits an entry is created with, as far as entries differ.
Modes == { 0, 1 }

\* Entry::new
Entry(file_type, mode) == [ file_type |-> file_type, mode |-> mode ]

\* A handler of the tree has answered: the repository and the inode table
\* are as it left them.
ApplyTree(watched, op, paths, a) ==
    /\ fuse' = [ fuse EXCEPT !.entries = a.entries, !.inodes = a.inodes ]
    /\ last' = Replied(watched, op, "", 0, a.status, 0,
                        IF op = "rename" THEN paths ELSE << >>)
    /\ UNCHANGED <<handle, object_state, store, alive, pend,
                   header, backend, session, history>>

Mknod(watched, fails, modes) ==
    /\ alive
    /\ \E parent \in Parents :
       \E name \in FileNames :
       \E mode \in modes :
       \E fail \in fails :
           ApplyTree(watched, "mknod", << path_join(parent, name) >>,
                     FuseAdapter_create(fuse.entries, fuse.inodes, parent, name,
                                        Entry("File", mode), fail))

Mkdir(watched, fails) ==
    /\ alive
    /\ \E parent \in Parents :
       \E name \in FileNames :
       \E fail \in fails :
           ApplyTree(watched, "mkdir", << path_join(parent, name) >>,
                     FuseAdapter_create(fuse.entries, fuse.inodes, parent, name,
                                        Entry("Directory", 0), fail))

Symlink(watched, fails) ==
    /\ alive
    /\ \E parent \in Parents :
       \E name \in FileNames :
       \E fail \in fails :
           ApplyTree(watched, "symlink", << path_join(parent, name) >>,
                     FuseAdapter_create(fuse.entries, fuse.inodes, parent, name,
                                        Entry("SymbolicLink", 0), fail))

Unlink(watched, fails) ==
    /\ alive
    /\ \E parent \in Parents :
       \E name \in FileNames :
       \E fail \in fails :
           ApplyTree(watched, "unlink", << path_join(parent, name) >>,
                     FuseAdapter_remove(fuse.entries, fuse.inodes, parent, name,
                                        FALSE, fail))

Rmdir(watched, fails) ==
    /\ alive
    /\ \E parent \in Parents :
       \E name \in FileNames :
       \E fail \in fails :
           ApplyTree(watched, "rmdir", << path_join(parent, name) >>,
                     FuseAdapter_remove(fuse.entries, fuse.inodes, parent, name,
                                        TRUE, fail))

Rename(watched, fails) ==
    /\ alive
    /\ \E parent \in Parents :
       \E name \in FileNames :
       \E newparent \in Parents :
       \E newname \in FileNames :
       \E fail \in fails :
           ApplyTree(watched, "rename",
                     << path_join(parent, name), path_join(newparent, newname) >>,
                     FuseAdapter_rename(fuse.entries, fuse.inodes, parent, name,
                                        newparent, newname, fail))

\* The tree while the repository never fails; renames are watched.
NextTree ==
    \/ Mknod(FALSE, { "none" }, Modes)
    \/ Mkdir(FALSE, { "none" })
    \/ Symlink(FALSE, { "none" })
    \/ Unlink(FALSE, { "none" })
    \/ Rmdir(FALSE, { "none" })
    \/ Rename(TRUE, { "none" })

SpecTree == Init /\ [][NextTree]_vars

\* The tree while commits may fail; every handler is watched.
NextTreeFailing ==
    \/ Mknod(TRUE, { "none", "commit" }, { 0 })
    \/ Mkdir(TRUE, { "none", "commit" })
    \/ Symlink(TRUE, { "none", "commit" })
    \/ Unlink(TRUE, { "none", "commit" })
    \/ Rmdir(TRUE, { "none", "commit" })
    \/ Rename(TRUE, { "none", "commit" })

SpecTreeFailing == Init /\ [][NextTreeFailing]_vars

\* C34: after a rename that replied ok the destination holds the entry the
\* source had, and the source does not exist any more.
C34_RenameMoves ==
    [][ ( /\ last'.op = "rename"
          /\ last'.status = "ok" )
        => /\ fuse'.entries[last'.data[2]] = fuse.entries[last'.data[1]]
           /\ ~exists(fuse'.entries, last'.data[1]) ]_vars

\* C34: the half of it that holds when the destination was free to take the
\* entry: the destination holds the entry the source had.
C34_RenameCopies ==
    [][ ( /\ last'.op = "rename"
          /\ last'.status = "ok" )
        => fuse'.entries[last'.data[2]] = fuse.entries[last'.data[1]] ]_vars

\* C35: the paths of the inode table are the paths of the entries that exist
\* below the mount root.
C35_InodeTable ==
    fuse.inodes = { path \in Paths : exists(fuse.entries, path) }

\* C35: the same as long as nothing was renamed.
C35_InodeTableUnrenamed ==
    [][ ( /\ last'.op # "rename"
          /\ fuse.inodes = { path \in Paths : exists(fuse.entries, path) } )
        => fuse'.inodes = { path \in Paths : exists(fuse'.entries, path) } ]_vars

\* C37: a handler that changes the tree and replies an error leaves the
\* entries of the repository as they were.
C37_ErrorsChangeNothing ==
    [][ ( /\ last'.op \in { "mknod", "mkdir", "symlink", "unlink", "rmdir", "rename" }
          /\ last'.status # "ok" )
        => fuse'.entries = fuse.entries ]_vars

\* C37: the same for the errors that are replied before the repository is
\* committed.
C37_EarlyErrorsChangeNothing ==
    [][ ( /\ last'.op \in { "mknod", "mkdir", "symlink", "unlink", "rmdir", "rename" }
          /\ last'.status \notin { "ok", "Io" } )
        => fuse'.entries = fuse.entries ]_vars

====
